---- MODULE Spec2Model ----
(***************************************************************************)
(* Model of the no-code-architects-toolkit job engine and video assembly   *)
(* pipeline.                                                               *)
(*                                                                         *)
(*  - Spec     : the in-memory task queue, the background worker           *)
(*               (app.py process_queue) and the request threads running    *)
(*               decorators.py queue_task.wrapper on either path.          *)
(*  - SpecCmd  : generate_ffmpeg_command applied to bounded well-formed     *)
(*               Assembly Requests.                                        *)
(*  - SpecPipe : process_video_assembly on bounded requests with the       *)
(*               storage adapters and the compositor as an environment.    *)
(***************************************************************************)
EXTENDS Integers, Sequences, FiniteSets, TLC

(***************************************************************************)
(* Bounds                                                                  *)
(***************************************************************************)
\* number of job ids (uuid4 values) handed out in one behaviour
MaxJobs == 2
\* largest configured MAX_QUEUE_LENGTH explored
MaxK == 1
\* number of injected failures of sink writes / Queue.put in one behaviour
MaxFaults == 2

\* longest image_sequence of an Assembly Request explored
MaxImages == 2

JobIds == 1..MaxJobs
\* request threads of the HTTP layer that run queue_task.wrapper concurrently
Threads == {"t1", "t2"}

\* faulty variant: a second process_queue thread is started
WorkerThreadsTwo == {1, 2}
\* app.py:149 starts exactly one thread running process_queue
WorkerThreads == {1}

\* an exception: type(e).__name__ and str(e)
NoError == [type |-> "", msg |-> ""]
\* an exception raised inside the callable f
HandlerError == [type |-> "RuntimeError", msg |-> "boom"]
\* unpacking a return value that is not a 3-tuple (decorators.py:39, app.py:69)
UnpackError == [type |-> "ValueError", msg |-> "not enough values to unpack"]
\* an exception raised by log_job_status
SinkError == [type |-> "OSError", msg |-> "sink unavailable"]

\* what the callable f (the route handler) can do when invoked: return
\* (result, endpoint_name, status_code), return something else, or raise
HandlerOutcomes ==
    { [kind |-> "return",    code |-> 200, result |-> "result_data", exc |-> NoError],
      [kind |-> "return",    code |-> 400, result |-> "error_text",  exc |-> NoError],
      [kind |-> "malformed", code |-> 0,   result |-> "",            exc |-> UnpackError],
      [kind |-> "raise",     code |-> 0,   result |-> "",            exc |-> HandlerError] }

NoOutcome == [kind |-> "none", code |-> 0, result |-> "", exc |-> NoError]
\* the exception caught when a sink write raised inside the try block
SinkRaised == [kind |-> "raise", code |-> 0, result |-> "", exc |-> SinkError]
NoResponse == [code |-> 0, body |-> "", queue_length |-> 0]
\* the "response": None field of a status snapshot
None == [code |-> 0, message |-> "None"]

VARIABLES
    max_queue_length,   \* app.config['MAX_QUEUE_LENGTH']
    task_queue,         \* the Queue(): sequence of entries, head is next out
    unfinished_tasks,   \* Queue.unfinished_tasks (put increments, task_done decrements)
    next_id,            \* next fresh job id
    job_path,           \* job id -> "none" | "bypass" | "queued"
    rpc,                \* request thread -> position in queue_task.wrapper
    rjob,               \* request thread -> job id of the request being handled
    rres,               \* request thread -> outcome of f on the bypass path
    http,               \* job id -> HTTP response returned to the caller
    wpc,                \* worker thread -> position in process_queue
    wjob,               \* worker thread -> job id of the dequeued entry
    wres,               \* worker thread -> outcome of the execution closure
    sink,               \* job id -> sequence of snapshots written by log_job_status
    put_order,          \* history: job ids in the order their entries were put
    start_order,        \* history: job ids in the order they were dequeued
    finish_order,       \* history: job ids in the order task_done was called for them
    calls,              \* history: job id -> number of invocations of f
    raised,             \* history: job id -> the exception the invocation of f ended in
    faults,             \* number of injected failures so far
    cmd_request,        \* SpecCmd: the Assembly Request a command is synthesized for
    ffmpeg_command,     \* SpecCmd: the list returned by generate_ffmpeg_command
    request,            \* SpecPipe: the Assembly Request given to process_video_assembly
    ppc,                \* SpecPipe: position in process_video_assembly
    temp_dir_exists,    \* SpecPipe: os.path.exists(temp_dir)
    download_tasks,     \* SpecPipe: the download_tasks list
    task_index,         \* SpecPipe: index of the next download task (1-based)
    downloads,          \* SpecPipe history: task indices handed to a storage adapter, in order
    ffmpeg_runs,        \* SpecPipe history: number of subprocess.run(ffmpeg_command) calls
    returncode,         \* SpecPipe: result.returncode of the compositor run, 0 before it
    uploads,            \* SpecPipe history: number of upload calls made to a storage adapter
    error,              \* SpecPipe: the exception travelling to the caller, "none" if none
    error_message,      \* SpecPipe: str(e) of that exception, "" if none
    failed_task,        \* SpecPipe history: index of the download task that raised, 0 if none
    failed_cause,       \* SpecPipe history: why that download failed, "none" if none
    rmtree_calls,       \* SpecPipe history: number of shutil.rmtree(temp_dir) calls
    rmtree_failed,      \* SpecPipe history: shutil.rmtree raised
    payload,            \* SpecRoute: what the JSON body given to handle_ffmpeg_compose is
    hpc,                \* SpecRoute: position in handle_ffmpeg_compose
    response_tuple      \* SpecRoute: the (message, endpoint_name, status_code) returned

engineVars == << max_queue_length, task_queue, unfinished_tasks, next_id, job_path,
                 rpc, rjob, rres, http, wpc, wjob, wres, sink,
                 put_order, start_order, finish_order, calls, raised, faults >>

cmdVars == << cmd_request, ffmpeg_command >>

pipeVars == << request, ppc, temp_dir_exists, download_tasks, task_index, downloads,
               ffmpeg_runs, returncode, uploads, error, error_message, failed_task,
               failed_cause, rmtree_calls, rmtree_failed >>

routeVars == << payload, hpc, response_tuple >>

vars == << engineVars, cmdVars, pipeVars, routeVars >>

(***************************************************************************)
(* Job Status Sink (app_utils.log_job_status): one write appends the       *)
(* snapshot to what the sink has observed under that job id.               *)
(***************************************************************************)
log_job_status(s, job_id, job_status, response) ==
    [s EXCEPT ![job_id] = Append(@, [job_status |-> job_status, response |-> response])]

Statuses(j) == [i \in 1..Len(sink[j]) |-> sink[j][i].job_status]

\* a failure of an external call (sink write, Queue.put) may be injected
CanFail == faults < MaxFaults

\* Queue.qsize()
qsize == Len(task_queue)

\* faulty variant: the newest entry is handed out (LIFO)
TaskQueueGetLast == task_queue[Len(task_queue)]
\* Queue.get(): the entry handed to the worker is the oldest one
TaskQueueGet == Head(task_queue)

\* the queue after Queue.get() removed the entry it returned
TaskQueueAfterGet ==
    LET k == CHOOSE i \in 1..Len(task_queue) : task_queue[i] = TaskQueueGet
    IN  SubSeq(task_queue, 1, k - 1) \o SubSeq(task_queue, k + 1, Len(task_queue))

\* faulty variants: an off-by-one comparison; no special case for 0
QueueIsFullStrict == max_queue_length > 0 /\ qsize > max_queue_length
QueueIsFullNoZero == qsize >= max_queue_length
\* decorators.py:58 admission test
QueueIsFull == max_queue_length > 0 /\ qsize >= max_queue_length

EngineInit ==
    /\ max_queue_length \in 0..MaxK
    /\ task_queue = << >>
    /\ unfinished_tasks = 0
    /\ next_id = 1
    /\ job_path = [j \in JobIds |-> "none"]
    /\ rpc = [t \in Threads |-> "idle"]
    /\ rjob = [t \in Threads |-> 0]
    /\ rres = [t \in Threads |-> NoOutcome]
    /\ http = [j \in JobIds |-> NoResponse]
    /\ wpc = [w \in WorkerThreads |-> "get"]
    /\ wjob = [w \in WorkerThreads |-> 0]
    /\ wres = [w \in WorkerThreads |-> NoOutcome]
    /\ sink = [j \in JobIds |-> << >>]
    /\ put_order = << >>
    /\ start_order = << >>
    /\ finish_order = << >>
    /\ calls = [j \in JobIds |-> 0]
    /\ raised = [j \in JobIds |-> NoError]
    /\ faults = 0

(***************************************************************************)
(* decorators.py queue_task.wrapper, one request thread t                  *)
(***************************************************************************)
reqUnchanged == UNCHANGED << max_queue_length, wpc, wjob, wres,
                             start_order, finish_order, cmdVars, pipeVars, routeVars >>

\* the request returns to its caller with an HTTP response; body is the message
\* the JSON body carries, queue_length the qsize() read that builds the body
\* (0 where the body carries none)
Return(t, code, body, queue_length) ==
    /\ http' = [http EXCEPT ![rjob[t]] =
                   [code |-> code, body |-> body, queue_length |-> queue_length]]
    /\ rpc' = [rpc EXCEPT ![t] = "idle"]
    /\ rjob' = [rjob EXCEPT ![t] = 0]
    /\ rres' = [rres EXCEPT ![t] = NoOutcome]

\* lines 28-35: fresh job id, then the branch on bypass_queue
Begin(t) ==
    /\ rpc[t] = "idle"
    /\ next_id <= MaxJobs
    /\ \E bypass \in BOOLEAN :
         /\ job_path' = [job_path EXCEPT ![next_id] = IF bypass THEN "bypass" ELSE "queued"]
         /\ rpc' = [rpc EXCEPT ![t] = IF bypass THEN "b_log_running" ELSE "check"]
    /\ rjob' = [rjob EXCEPT ![t] = next_id]
    /\ rres' = [rres EXCEPT ![t] = NoOutcome]
    /\ next_id' = next_id + 1
    /\ UNCHANGED << task_queue, unfinished_tasks, http, sink, put_order, calls, raised, faults >>
    /\ reqUnchanged

\* faulty variant: the bypass path does not report `running`
BypassLogRunningSkipped(t) ==
    /\ rpc[t] = "b_log_running"
    /\ rpc' = [rpc EXCEPT ![t] = "b_call"]
    /\ UNCHANGED << task_queue, unfinished_tasks, next_id, job_path, rjob, rres, http,
                    sink, put_order, calls, raised, faults >>
    /\ reqUnchanged

\* line 38: log_job_status(running) on the bypass path
BypassLogRunning(t) ==
    /\ rpc[t] = "b_log_running"
    /\ sink' = log_job_status(sink, rjob[t], "running", None)
    /\ rpc' = [rpc EXCEPT ![t] = "b_call"]
    /\ UNCHANGED << task_queue, unfinished_tasks, next_id, job_path, rjob, rres, http,
                    put_order, calls, raised, faults >>
    /\ reqUnchanged

\* line 38 raising: caught at line 50 as sync_error
BypassLogRunningRaises(t) ==
    /\ rpc[t] = "b_log_running"
    /\ CanFail
    /\ faults' = faults + 1
    /\ rres' = [rres EXCEPT ![t] = SinkRaised]
    /\ rpc' = [rpc EXCEPT ![t] = "b_except"]
    /\ UNCHANGED << task_queue, unfinished_tasks, next_id, job_path, rjob, http,
                    sink, put_order, calls, raised >>
    /\ reqUnchanged

\* line 39: result, endpoint_name, status_code = f(job_id=job_id, data=data)
\* inline on the request thread
BypassCall(t) ==
    /\ rpc[t] = "b_call"
    /\ calls' = [calls EXCEPT ![rjob[t]] = @ + 1]
    /\ \E o \in HandlerOutcomes :
         /\ rres' = [rres EXCEPT ![t] = o]
         /\ raised' = [raised EXCEPT ![rjob[t]] = o.exc]
         /\ rpc' = [rpc EXCEPT ![t] = IF o.kind = "return" THEN "b_log_done" ELSE "b_except"]
    /\ UNCHANGED << task_queue, unfinished_tasks, next_id, job_path, rjob, http,
                    sink, put_order, faults >>
    /\ reqUnchanged

\* the value None of a "response" field inside an outcome record
NoResult == "None"

\* faulty variant: the bypass record reports a queue wait like the worker's
response_obj_waited(result, status_code) ==
    [ code       |-> status_code,
      response   |-> IF status_code = 200 THEN result ELSE NoResult,
      message    |-> IF status_code = 200 THEN "success" ELSE result,
      queue_time |-> 1 ]
\* lines 41-47: response_obj, the outcome record of the bypass path
response_obj(result, status_code) ==
    [ code       |-> status_code,
      response   |-> IF status_code = 200 THEN result ELSE NoResult,
      message    |-> IF status_code = 200 THEN "success" ELSE result,
      queue_time |-> 0 ]

\* lines 48-49: log_job_status(done), return response_obj with status_code
BypassLogDone(t) ==
    /\ rpc[t] = "b_log_done"
    /\ sink' = log_job_status(sink, rjob[t], "done",
                              response_obj(rres[t].result, rres[t].code))
    /\ Return(t, rres[t].code, response_obj(rres[t].result, rres[t].code).message, qsize)
    /\ UNCHANGED << task_queue, unfinished_tasks, next_id, job_path,
                    put_order, calls, raised, faults >>
    /\ reqUnchanged

\* line 48 raising: caught at line 50 as sync_error
BypassLogDoneRaises(t) ==
    /\ rpc[t] = "b_log_done"
    /\ CanFail
    /\ faults' = faults + 1
    /\ rres' = [rres EXCEPT ![t] = SinkRaised]
    /\ rpc' = [rpc EXCEPT ![t] = "b_except"]
    /\ UNCHANGED << task_queue, unfinished_tasks, next_id, job_path, rjob, http,
                    sink, put_order, calls, raised >>
    /\ reqUnchanged

\* faulty variant: the report repeats str(sync_error) instead of the type name
SyncErrorMessageWithDetail(sync_error) ==
    "Internal server error during sync execution: " \o sync_error.msg
\* line 52: error_message, built from type(sync_error).__name__
SyncErrorMessage(sync_error) ==
    "Internal server error during sync execution: " \o sync_error.type

\* faulty variant: the body returned to the caller repeats str(sync_error)
SyncErrorBodyLeaks(sync_error) == "Processing failed: " \o sync_error.msg
\* line 55: the message of the body returned to the caller
SyncErrorBody(sync_error) == "Processing failed"

\* the body of the HTTP layer's answer to an exception that left wrapper
UnhandledBody == "Internal Server Error"

\* lines 50-55: log_job_status(failed), return the generic 500
BypassExcept(t) ==
    /\ rpc[t] = "b_except"
    /\ sink' = log_job_status(sink, rjob[t], "failed",
                              [code |-> 500, message |-> SyncErrorMessage(rres[t].exc)])
    /\ Return(t, 500, SyncErrorBody(rres[t].exc), 0)
    /\ UNCHANGED << task_queue, unfinished_tasks, next_id, job_path,
                    put_order, calls, raised, faults >>
    /\ reqUnchanged

\* line 54 raising: the exception leaves wrapper, the HTTP layer answers 500
BypassExceptRaises(t) ==
    /\ rpc[t] = "b_except"
    /\ CanFail
    /\ faults' = faults + 1
    /\ Return(t, 500, UnhandledBody, 0)
    /\ UNCHANGED << task_queue, unfinished_tasks, next_id, job_path,
                    sink, put_order, calls, raised >>
    /\ reqUnchanged

\* faulty variant: `queued` is recorded before the admission test
CheckLogsQueuedFirst(t) ==
    /\ rpc[t] = "check"
    /\ sink' = log_job_status(sink, rjob[t], "queued", None)
    /\ rpc' = [rpc EXCEPT ![t] = IF QueueIsFull THEN "reject" ELSE "put"]
    /\ UNCHANGED << task_queue, unfinished_tasks, next_id, job_path, rjob, rres, http,
                    put_order, calls, raised, faults >>
    /\ reqUnchanged

\* line 58: the admission test reads qsize() once
Check(t) ==
    /\ rpc[t] = "check"
    /\ rpc' = [rpc EXCEPT ![t] = IF QueueIsFull THEN "reject" ELSE "log_queued"]
    /\ UNCHANGED << task_queue, unfinished_tasks, next_id, job_path, rjob, rres, http,
                    sink, put_order, calls, raised, faults >>
    /\ reqUnchanged

\* faulty variant: the response repeats the configured maximum as queue_length
RejectReportsMax(t) ==
    /\ rpc[t] = "reject"
    /\ Return(t, 429, "Task queue is full", max_queue_length)
    /\ UNCHANGED << task_queue, unfinished_tasks, next_id, job_path,
                    sink, put_order, calls, raised, faults >>
    /\ reqUnchanged

\* lines 59-64: the 429 response; queue_length is a second qsize() read
Reject(t) ==
    /\ rpc[t] = "reject"
    /\ Return(t, 429, "Task queue is full", qsize)
    /\ UNCHANGED << task_queue, unfinished_tasks, next_id, job_path,
                    sink, put_order, calls, raised, faults >>
    /\ reqUnchanged

\* line 65: log_job_status(queued)
LogQueued(t) ==
    /\ rpc[t] = "log_queued"
    /\ sink' = log_job_status(sink, rjob[t], "queued", None)
    /\ rpc' = [rpc EXCEPT ![t] = "put"]
    /\ UNCHANGED << task_queue, unfinished_tasks, next_id, job_path, rjob, rres, http,
                    put_order, calls, raised, faults >>
    /\ reqUnchanged

\* line 65 raising: outside any try, the HTTP layer answers 500
LogQueuedRaises(t) ==
    /\ rpc[t] = "log_queued"
    /\ CanFail
    /\ faults' = faults + 1
    /\ Return(t, 500, UnhandledBody, 0)
    /\ UNCHANGED << task_queue, unfinished_tasks, next_id, job_path,
                    sink, put_order, calls, raised >>
    /\ reqUnchanged

\* faulty variant: the wrapper runs the closure itself before it enqueues it
PutRunsInline(t) ==
    /\ rpc[t] = "put"
    /\ calls' = [calls EXCEPT ![rjob[t]] = @ + 1]
    /\ task_queue' = Append(task_queue, rjob[t])
    /\ unfinished_tasks' = unfinished_tasks + 1
    /\ put_order' = Append(put_order, rjob[t])
    /\ rpc' = [rpc EXCEPT ![t] = "ack"]
    /\ UNCHANGED << next_id, job_path, rjob, rres, http, sink, raised, faults >>
    /\ reqUnchanged

\* lines 66-70: task_queue.put(task_tuple)
Put(t) ==
    /\ rpc[t] = "put"
    /\ task_queue' = Append(task_queue, rjob[t])
    /\ unfinished_tasks' = unfinished_tasks + 1
    /\ put_order' = Append(put_order, rjob[t])
    /\ rpc' = [rpc EXCEPT ![t] = "ack"]
    /\ UNCHANGED << next_id, job_path, rjob, rres, http, sink, calls, raised, faults >>
    /\ reqUnchanged

\* line 71: put raised
PutRaises(t) ==
    /\ rpc[t] = "put"
    /\ CanFail
    /\ faults' = faults + 1
    /\ rpc' = [rpc EXCEPT ![t] = "put_failed"]
    /\ UNCHANGED << task_queue, unfinished_tasks, next_id, job_path, rjob, rres, http,
                    sink, put_order, calls, raised >>
    /\ reqUnchanged

\* lines 72-74: log_job_status(failed), return 500
PutFailed(t) ==
    /\ rpc[t] = "put_failed"
    /\ sink' = log_job_status(sink, rjob[t], "failed",
                              [code |-> 500, message |-> "Queue Put Error"])
    /\ Return(t, 500, "Failed to queue task.", 0)
    /\ UNCHANGED << task_queue, unfinished_tasks, next_id, job_path,
                    put_order, calls, raised, faults >>
    /\ reqUnchanged

\* line 73 raising: the HTTP layer answers 500
PutFailedRaises(t) ==
    /\ rpc[t] = "put_failed"
    /\ CanFail
    /\ faults' = faults + 1
    /\ Return(t, 500, UnhandledBody, 0)
    /\ UNCHANGED << task_queue, unfinished_tasks, next_id, job_path,
                    sink, put_order, calls, raised >>
    /\ reqUnchanged

\* lines 75-79: the 202 acknowledgement. Its queue_length (a qsize() read that
\* nothing acts on) is left out of the recorded response, like pid and queue_id
Ack(t) ==
    /\ rpc[t] = "ack"
    /\ Return(t, 202, "processing", 0)
    /\ UNCHANGED << task_queue, unfinished_tasks, next_id, job_path,
                    sink, put_order, calls, raised, faults >>
    /\ reqUnchanged

(***************************************************************************)
(* app.py process_queue, one worker thread w                               *)
(***************************************************************************)
workUnchanged == UNCHANGED << max_queue_length, next_id, job_path, rpc, rjob, rres,
                              http, put_order, cmdVars, pipeVars, routeVars >>

\* line 52: task_queue.get() blocks while the queue is empty
Get(w) ==
    /\ wpc[w] = "get"
    /\ qsize > 0
    /\ wjob' = [wjob EXCEPT ![w] = TaskQueueGet]
    /\ task_queue' = TaskQueueAfterGet
    /\ start_order' = Append(start_order, TaskQueueGet)
    /\ wres' = [wres EXCEPT ![w] = NoOutcome]
    /\ wpc' = [wpc EXCEPT ![w] = "log_running"]
    /\ UNCHANGED << unfinished_tasks, sink, finish_order, calls, raised, faults >>
    /\ workUnchanged

\* faulty variant: the worker does not report `running`
LogRunningSkipped(w) ==
    /\ wpc[w] = "log_running"
    /\ wpc' = [wpc EXCEPT ![w] = "call"]
    /\ UNCHANGED << task_queue, unfinished_tasks, wjob, wres, sink, start_order,
                    finish_order, calls, raised, faults >>
    /\ workUnchanged

\* lines 58-64: log_job_status(running)
LogRunning(w) ==
    /\ wpc[w] = "log_running"
    /\ sink' = log_job_status(sink, wjob[w], "running", None)
    /\ wpc' = [wpc EXCEPT ![w] = "call"]
    /\ UNCHANGED << task_queue, unfinished_tasks, wjob, wres, start_order,
                    finish_order, calls, raised, faults >>
    /\ workUnchanged

LogRunningRaises(w) ==
    /\ wpc[w] = "log_running"
    /\ CanFail
    /\ faults' = faults + 1
    /\ wres' = [wres EXCEPT ![w] = SinkRaised]
    /\ wpc' = [wpc EXCEPT ![w] = "except"]
    /\ UNCHANGED << task_queue, unfinished_tasks, wjob, sink, start_order,
                    finish_order, calls, raised >>
    /\ workUnchanged

\* lines 67-69: response_tuple = task_func_wrapper(), unpacked into
\* result_data, endpoint_name, status_code
Call(w) ==
    /\ wpc[w] = "call"
    /\ calls' = [calls EXCEPT ![wjob[w]] = @ + 1]
    /\ \E o \in HandlerOutcomes :
         /\ wres' = [wres EXCEPT ![w] = o]
         /\ raised' = [raised EXCEPT ![wjob[w]] = o.exc]
         /\ wpc' = [wpc EXCEPT ![w] = IF o.kind = "return" THEN "log_done" ELSE "except"]
    /\ UNCHANGED << task_queue, unfinished_tasks, wjob, sink, start_order,
                    finish_order, faults >>
    /\ workUnchanged

\* lines 54, 86: round(queue_time, 3), the time the entry waited in the queue.
\* The model has no clock: one unit stands for the positive reading
queue_time == 1

\* faulty variant: the result is reported as the response whatever the status
\* code, and the message is always "success"
job_outcome_details_no_code_test(result_data, status_code) ==
    [ endpoint   |-> "endpoint_name",
      code       |-> status_code,
      response   |-> result_data,
      message    |-> "success",
      queue_time |-> queue_time ]
\* lines 75-89: job_outcome_details, the outcome record of the queued path
job_outcome_details(result_data, status_code) ==
    [ endpoint   |-> "endpoint_name",
      code       |-> status_code,
      response   |-> IF status_code = 200 THEN result_data ELSE NoResult,
      message    |-> IF status_code = 200 THEN "success" ELSE result_data,
      queue_time |-> queue_time ]

\* lines 75-97: job_outcome_details, log_job_status(done)
LogDone(w) ==
    /\ wpc[w] = "log_done"
    /\ sink' = log_job_status(sink, wjob[w], "done",
                              job_outcome_details(wres[w].result, wres[w].code))
    /\ wpc' = [wpc EXCEPT ![w] = "task_done"]
    /\ UNCHANGED << task_queue, unfinished_tasks, wjob, wres, start_order,
                    finish_order, calls, raised, faults >>
    /\ workUnchanged

\* faulty variant: the `done` report raises after the sink has taken the snapshot
LogDoneRaisesAfterWrite(w) ==
    /\ wpc[w] = "log_done"
    /\ CanFail
    /\ faults' = faults + 1
    /\ sink' = log_job_status(sink, wjob[w], "done",
                              job_outcome_details(wres[w].result, wres[w].code))
    /\ wres' = [wres EXCEPT ![w] = SinkRaised]
    /\ wpc' = [wpc EXCEPT ![w] = "except"]
    /\ UNCHANGED << task_queue, unfinished_tasks, wjob, start_order,
                    finish_order, calls, raised >>
    /\ workUnchanged

\* lines 91-97 raising: log_job_status(done) raised, nothing was recorded
LogDoneRaises(w) ==
    /\ wpc[w] = "log_done"
    /\ CanFail
    /\ faults' = faults + 1
    /\ wres' = [wres EXCEPT ![w] = SinkRaised]
    /\ wpc' = [wpc EXCEPT ![w] = "except"]
    /\ UNCHANGED << task_queue, unfinished_tasks, wjob, sink, start_order,
                    finish_order, calls, raised >>
    /\ workUnchanged

\* faulty variant: the report names the exception's type only
ProcessingErrorMessageTypeOnly(processing_error) == processing_error.type
\* line 119: "message": str(processing_error)
ProcessingErrorMessage(processing_error) == processing_error.msg

\* faulty variant: the except block logs the error and reports nothing to the sink
ExceptSilent(w) ==
    /\ wpc[w] = "except"
    /\ wpc' = [wpc EXCEPT ![w] = "task_done"]
    /\ UNCHANGED << task_queue, unfinished_tasks, wjob, wres, sink, start_order,
                    finish_order, calls, raised, faults >>
    /\ workUnchanged

\* lines 109-126: except Exception: log_job_status(failed) with str(processing_error)
Except(w) ==
    /\ wpc[w] = "except"
    /\ sink' = log_job_status(sink, wjob[w], "failed",
                              [code |-> 0, message |-> ProcessingErrorMessage(wres[w].exc)])
    /\ wpc' = [wpc EXCEPT ![w] = "task_done"]
    /\ UNCHANGED << task_queue, unfinished_tasks, wjob, wres, start_order,
                    finish_order, calls, raised, faults >>
    /\ workUnchanged

\* faulty variant: the exception of the failure report leaves the loop and the
\* worker thread ends, without task_done
ExceptRaisesEscapes(w) ==
    /\ wpc[w] = "except"
    /\ CanFail
    /\ faults' = faults + 1
    /\ wpc' = [wpc EXCEPT ![w] = "dead"]
    /\ UNCHANGED << task_queue, unfinished_tasks, wjob, wres, sink, start_order,
                    finish_order, calls, raised >>
    /\ workUnchanged

\* lines 136-137: the failure report itself raised; logged and swallowed
ExceptRaises(w) ==
    /\ wpc[w] = "except"
    /\ CanFail
    /\ faults' = faults + 1
    /\ wpc' = [wpc EXCEPT ![w] = "task_done"]
    /\ UNCHANGED << task_queue, unfinished_tasks, wjob, wres, sink, start_order,
                    finish_order, calls, raised >>
    /\ workUnchanged

\* faulty variant: task_done is called at the end of the try block, not in a
\* finally, so a failed job is never signalled
TaskDoneOnSuccessOnly(w) ==
    /\ wpc[w] = "task_done"
    /\ unfinished_tasks' =
         IF wres[w].kind = "return" THEN unfinished_tasks - 1 ELSE unfinished_tasks
    /\ finish_order' =
         IF wres[w].kind = "return" THEN Append(finish_order, wjob[w]) ELSE finish_order
    /\ wjob' = [wjob EXCEPT ![w] = 0]
    /\ wres' = [wres EXCEPT ![w] = NoOutcome]
    /\ wpc' = [wpc EXCEPT ![w] = "get"]
    /\ UNCHANGED << task_queue, sink, start_order, calls, raised, faults >>
    /\ workUnchanged

\* lines 139-144: finally: task_queue.task_done(), then back to the top of the loop
TaskDone(w) ==
    /\ wpc[w] = "task_done"
    /\ unfinished_tasks' = unfinished_tasks - 1
    /\ finish_order' = Append(finish_order, wjob[w])
    /\ wjob' = [wjob EXCEPT ![w] = 0]
    /\ wres' = [wres EXCEPT ![w] = NoOutcome]
    /\ wpc' = [wpc EXCEPT ![w] = "get"]
    /\ UNCHANGED << task_queue, sink, start_order, calls, raised, faults >>
    /\ workUnchanged

(***************************************************************************)
(* services/v1/ffmpeg/video_assembly_service.py generate_ffmpeg_command    *)
(***************************************************************************)
\* tempfile.mkdtemp(...): the working directory's path
temp_dir == "/tmp/nca_job"

\* os.path.join(temp_dir, name)
PathJoin(dir, name) == dir \o "/" \o name

\* declared durations of the explored images (seconds)
Durations == {2, 3}

\* an image_sequence entry with a resolvable locator and a duration
ImageEntries ==
    [source_type : {"gdrive_id"}, key : {"imgA"}, duration : Durations]
      \cup [source_type : {"s3_object_key"}, key : {"img/b"}, duration : Durations]

SeqsUpTo(S, n) == UNION { [1..k -> S] : k \in 1..n }

\* ffmpeg_options: "" stands for an absent (or empty) option, other_flags << >> for
\* an absent list, shortest is True, False or absent
FfmpegOptions ==
    [ video_codec   : {"", "libx264"},
      tune          : {"", "stillimage"},
      audio_codec   : {"", "aac"},
      audio_bitrate : {"", "192k"},
      fps_mode      : {"", "vfr"},
      other_flags   : { << >>, << "-shortest" >>, << "-movflags", "+faststart" >> },
      shortest      : {"absent", "true", "false"} ]

CmdRequests ==
    [ image_sequence  : SeqsUpTo(ImageEntries, MaxImages),
      audio_input     : {"gdrive_id", "s3_object_key"},
      output_filename : {"out.mp4"},
      ffmpeg_options  : FfmpegOptions ]

NoCmdRequest ==
    [ image_sequence |-> << >>, audio_input |-> "none", output_filename |-> "",
      ffmpeg_options |-> [ video_codec |-> "", tune |-> "", audio_codec |-> "",
                           audio_bitrate |-> "", fps_mode |-> "",
                           other_flags |-> << >>, shortest |-> "absent" ] ]

\* lines 69-78: local path of the audio input (file_name absent)
local_audio_path(audio_source_type) ==
    IF audio_source_type = "gdrive_id"
    THEN PathJoin(temp_dir, "audio_" \o "audA" \o ".mp3")
    ELSE PathJoin(temp_dir, "audio" \o ".tmp")

\* lines 84-93: local path of image i (0-based; file_name absent, so ext is ".tmp")
local_img_path(i, img_data) ==
    IF img_data.source_type = "gdrive_id"
    THEN PathJoin(temp_dir, "image_" \o ToString(i) \o "_" \o img_data.key \o ".tmp")
    ELSE PathJoin(temp_dir, "image_" \o ToString(i) \o ".tmp")

\* faulty variant: the list is built back to front
image_inputs_for_ffmpeg_reversed(image_sequence) ==
    [ k \in 1..Len(image_sequence) |->
        LET r == Len(image_sequence) + 1 - k
        IN  [ path |-> local_img_path(r - 1, image_sequence[r]),
              duration |-> image_sequence[r].duration ] ]

\* lines 81-95: image_inputs_for_ffmpeg, appended in image_sequence order
image_inputs_for_ffmpeg(image_sequence) ==
    [ k \in 1..Len(image_sequence) |->
        [ path |-> local_img_path(k - 1, image_sequence[k]),
          duration |-> image_sequence[k].duration ] ]

\* "".join(parts)
RECURSIVE Join(_)
Join(parts) == IF parts = << >> THEN "" ELSE Head(parts) \o Join(Tail(parts))

\* "x" in command
InList(x, list) == \E i \in 1..Len(list) : list[i] = x

\* faulty variant: the index of the last image instead of the audio input
audio_input_index_off_by_one(image_inputs) == Len(image_inputs) - 1
\* line 23: audio_input_index = len(image_inputs)
audio_input_index(image_inputs) == Len(image_inputs)

\* faulty variant: the audio input is counted among the concat segments
concat_stage_plus_audio(image_inputs) ==
    "concat=n=" \o ToString(Len(image_inputs) + 1) \o ":v=1:a=0[outv]"
\* line 26: the concat stage
concat_stage(image_inputs) ==
    "concat=n=" \o ToString(Len(image_inputs)) \o ":v=1:a=0[outv]"

\* faulty variant: the flag is emitted whether or not the option is set
OptKeepsAbsent(flag, value) == << flag, value >>
\* lines 30-34: one optional flag
Opt(flag, value) == IF value # "" THEN << flag, value >> ELSE << >>

\* lines 14-49
generate_ffmpeg_command(image_inputs, audio_path, output_path, ffmpeg_options) ==
    LET n == Len(image_inputs)
        \* lines 18-21, the state of the three lists after i iterations
        command[i \in 0..n] ==
            IF i = 0 THEN << "ffmpeg" >>
            ELSE command[i - 1] \o << "-loop", "1", "-t", ToString(image_inputs[i].duration),
                                      "-i", image_inputs[i].path >>
        filter_complex_parts[i \in 0..n] ==
            IF i = 0 THEN << >>
            ELSE Append(filter_complex_parts[i - 1],
                        "[" \o ToString(i - 1)
                            \o ":v]settb=AVTB,setpts=PTS-STARTPTS,fps=fps=25,format=pix_fmts=yuv420p[v"
                            \o ToString(i - 1) \o "];")
        input_mappings[i \in 0..n] ==
            IF i = 0 THEN << >>
            ELSE Append(input_mappings[i - 1], "[v" \o ToString(i - 1) \o "]")
        \* lines 24-26
        filter_complex ==
            Join(filter_complex_parts[n]) \o Join(input_mappings[n]) \o concat_stage(image_inputs)
        \* lines 22-36
        c36 == command[n]
                 \o << "-i", audio_path >>
                 \o << "-filter_complex", filter_complex >>
                 \o << "-map", "[outv]" >>
                 \o << "-map", ToString(audio_input_index(image_inputs)) \o ":a?" >>
                 \o Opt("-c:v", ffmpeg_options.video_codec)
                 \o Opt("-tune", ffmpeg_options.tune)
                 \o Opt("-c:a", ffmpeg_options.audio_codec)
                 \o Opt("-b:a", ffmpeg_options.audio_bitrate)
                 \o Opt("-fps_mode", ffmpeg_options.fps_mode)
                 \o << "-pix_fmt", "yuv420p" >>
                 \o ffmpeg_options.other_flags
        \* lines 38-45
        c45 == IF ffmpeg_options.shortest = "true" /\ ~InList("-shortest", c36)
               THEN Append(c36, "-shortest")
               ELSE c36
    IN  Append(c45, output_path)

CmdIdle ==
    /\ cmd_request = NoCmdRequest
    /\ ffmpeg_command = << >>

\* process_video_assembly lines 66-118 for a request whose downloads succeeded:
\* build the local paths, then synthesize the command
GenerateCommand ==
    /\ cmd_request # NoCmdRequest
    /\ ffmpeg_command = << >>
    /\ ffmpeg_command' =
         generate_ffmpeg_command(image_inputs_for_ffmpeg(cmd_request.image_sequence),
                                 local_audio_path(cmd_request.audio_input),
                                 PathJoin(temp_dir, cmd_request.output_filename),
                                 cmd_request.ffmpeg_options)
    /\ UNCHANGED << cmd_request, engineVars, pipeVars, routeVars >>

(***************************************************************************)
(* services/v1/ffmpeg/video_assembly_service.py process_video_assembly     *)
(***************************************************************************)
\* an asset locator as the pipeline reads it: source_type and the keys present
\*   gdrive              source_type gdrive_id with file_id
\*   gdrive_no_file_id   source_type gdrive_id without file_id
\*   s3                  source_type s3_object_key with object_key and bucket_name
\*   s3_no_bucket_name   source_type s3_object_key with object_key, no bucket_name
\*   s3_no_object_key    source_type s3_object_key without object_key
\*   unknown_kind        any other source_type
Locators == { "gdrive", "gdrive_no_file_id", "s3", "s3_no_bucket_name",
              "s3_no_object_key", "unknown_kind" }

ImageData ==
    [locator : Locators, has_duration : {TRUE}]
      \cup [locator : {"gdrive", "unknown_kind"}, has_duration : {FALSE}]

\* outputs[0]: type and the destination keys present (type defaults to s3)
OutputTargets == { "gdrive", "gdrive_no_folder_id", "s3", "s3_no_bucket_name",
                   "unknown_type" }

SeqsFromZero(S, n) == UNION { [1..k -> S] : k \in 0..n }

\* requests that carry both `inputs` and `outputs`
FullRequests ==
    [ shape : {"ok"},
      audio_input : Locators \cup {"missing"},
      image_sequence : SeqsFromZero(ImageData, MaxImages),
      output_target : OutputTargets,
      default_s3_bucket : BOOLEAN ]

\* requests without `inputs` or without `outputs`
EmptyRequests ==
    [ shape : {"no_inputs", "no_outputs"},
      audio_input : {"missing"},
      image_sequence : { << >> },
      output_target : {"s3"},
      default_s3_bucket : {FALSE} ]

Requests == FullRequests \cup EmptyRequests

NoRequest ==
    [ shape |-> "none", audio_input |-> "missing", image_sequence |-> << >>,
      output_target |-> "s3", default_s3_bucket |-> FALSE ]

\* lines 69-79, 87-94: a locator names a source kind and carries that kind's key
Resolvable(locator) == locator \in {"gdrive", "s3", "s3_no_bucket_name"}

\* lines 72, 78, 88, 93: the download task of a resolvable locator;
\* bucket is the truth value of task.get('bucket')
TaskOf(locator, default_s3_bucket) ==
    IF locator = "gdrive"
    THEN [type |-> "gdrive", bucket |-> FALSE]
    ELSE [type |-> "s3", bucket |-> (locator = "s3" \/ default_s3_bucket)]

\* lines 53-58: the checks made before the working directory exists
RequestIsIncomplete(r) ==
    \/ r.shape # "ok"
    \/ r.audio_input = "missing"
    \/ r.image_sequence = << >>

\* faulty variant: the duration of an image is not looked at
BuildFailsKindOnly(r) ==
    \/ ~Resolvable(r.audio_input)
    \/ \E i \in 1..Len(r.image_sequence) : ~Resolvable(r.image_sequence[i].locator)

\* lines 66-95: some locator cannot be turned into a download task
BuildFails(r) ==
    \/ ~Resolvable(r.audio_input)
    \/ \E i \in 1..Len(r.image_sequence) :
          ~r.image_sequence[i].has_duration \/ ~Resolvable(r.image_sequence[i].locator)

\* why a download fails:
\*   no_client   the storage client cannot be built (credentials)
\*   missing     the referenced object does not exist (HTTP 404 from the store)
\*   denied      permission denied (HTTP 403 from the store)
\*   transport   a transport error that is no builtin ConnectionError (a timeout,
\*               a name that does not resolve)
\*   refused     a transport error that is a builtin ConnectionError (connection
\*               refused or reset)
DownloadCauses == {"no_client", "missing", "denied", "transport", "refused"}

\* what a failed download raises, as the except clauses of the handler see it:
\* s3_toolkit.download_file_from_s3 lines 41-65 (every exception of the client
\* call is turned into FileNotFoundError, PermissionError or ConnectionError),
\* gdrive_service.download_gdrive_file lines 59-87 (HttpError, whatever its
\* status, becomes ConnectionError; any other exception is re-raised as it is)
DownloadError(type, cause) ==
    IF type = "s3"
    THEN CASE cause = "no_client" -> "ConnectionError"
           [] cause = "missing"   -> "FileNotFoundError"
           [] cause = "denied"    -> "PermissionError"
           [] OTHER               -> "ConnectionError"
    ELSE CASE cause = "transport" -> "OtherError"
           [] OTHER               -> "ConnectionError"

PipeIdle ==
    /\ request = NoRequest
    /\ ppc = "idle"
    /\ temp_dir_exists = FALSE
    /\ download_tasks = << >>
    /\ task_index = 0
    /\ downloads = << >>
    /\ ffmpeg_runs = 0
    /\ returncode = 0
    /\ uploads = 0
    /\ error = "none"
    /\ error_message = ""
    /\ failed_task = 0
    /\ failed_cause = "none"
    /\ rmtree_calls = 0
    /\ rmtree_failed = FALSE

pipeUnchanged == UNCHANGED << request, engineVars, cmdVars, routeVars >>

\* str(e) of an exception of type exc whose text the model does not spell out
Str(exc) == "str(" \o exc \o ")"

\* the except/finally of lines 151-155: the exception heads for the cleanup
Raise(exc) ==
    /\ error' = exc
    /\ error_message' = Str(exc)
    /\ ppc' = "cleanup"

\* lines 53-58: raise ValueError before mkdtemp
ValidateRaises ==
    /\ ppc = "start"
    /\ RequestIsIncomplete(request)
    /\ error' = "ValueError"
    /\ error_message' = Str("ValueError")
    /\ ppc' = "raised"
    /\ UNCHANGED << temp_dir_exists, download_tasks, task_index, downloads, ffmpeg_runs,
                    returncode, uploads, failed_task, failed_cause, rmtree_calls,
                    rmtree_failed >>
    /\ pipeUnchanged

\* line 63: temp_dir = tempfile.mkdtemp(...)
Mkdtemp ==
    /\ ppc = "start"
    /\ ~RequestIsIncomplete(request)
    /\ temp_dir_exists' = TRUE
    /\ ppc' = "build"
    /\ UNCHANGED << download_tasks, task_index, downloads, ffmpeg_runs, returncode,
                    uploads, error, error_message, failed_task, failed_cause, rmtree_calls,
                    rmtree_failed >>
    /\ pipeUnchanged

\* faulty variant: the image tasks are appended before the audio task
BuildTasksImagesFirst ==
    /\ ppc = "build"
    /\ ~BuildFails(request)
    /\ download_tasks' =
         [ i \in 1..Len(request.image_sequence) |->
              TaskOf(request.image_sequence[i].locator, request.default_s3_bucket) ]
           \o << TaskOf(request.audio_input, request.default_s3_bucket) >>
    /\ task_index' = 1
    /\ ppc' = "download"
    /\ UNCHANGED << temp_dir_exists, downloads, ffmpeg_runs, returncode, uploads, error,
                    error_message, failed_task, failed_cause, rmtree_calls,
                    rmtree_failed >>
    /\ pipeUnchanged

\* lines 66-95: the download_tasks list, audio first, then the images in order
BuildTasks ==
    /\ ppc = "build"
    /\ ~BuildFails(request)
    /\ download_tasks' =
         << TaskOf(request.audio_input, request.default_s3_bucket) >>
           \o [ i \in 1..Len(request.image_sequence) |->
                  TaskOf(request.image_sequence[i].locator, request.default_s3_bucket) ]
    /\ task_index' = 1
    /\ ppc' = "download"
    /\ UNCHANGED << temp_dir_exists, downloads, ffmpeg_runs, returncode, uploads, error,
                    error_message, failed_task, failed_cause, rmtree_calls,
                    rmtree_failed >>
    /\ pipeUnchanged

\* lines 79, 83, 94: raise ValueError while building the list
BuildRaises ==
    /\ ppc = "build"
    /\ BuildFails(request)
    /\ Raise("ValueError")
    /\ UNCHANGED << temp_dir_exists, download_tasks, task_index, downloads, ffmpeg_runs,
                    returncode, uploads, failed_task, failed_cause, rmtree_calls,
                    rmtree_failed >>
    /\ pipeUnchanged

\* lines 109-111: an s3 task without a bucket raises ValueError when its turn comes
DownloadMissingBucket ==
    /\ ppc = "download"
    /\ download_tasks[task_index].type = "s3"
    /\ ~download_tasks[task_index].bucket
    /\ Raise("ValueError")
    /\ UNCHANGED << temp_dir_exists, download_tasks, task_index, downloads, ffmpeg_runs,
                    returncode, uploads, failed_task, failed_cause, rmtree_calls,
                    rmtree_failed >>
    /\ pipeUnchanged

DownloadCallable ==
    /\ ppc = "download"
    /\ download_tasks[task_index].type = "s3" => download_tasks[task_index].bucket

\* lines 106-113: the adapter call of the current task returned
DownloadOk ==
    /\ DownloadCallable
    /\ downloads' = Append(downloads, task_index)
    /\ task_index' = task_index + 1
    /\ ppc' = IF task_index = Len(download_tasks) THEN "ffmpeg" ELSE "download"
    /\ UNCHANGED << temp_dir_exists, download_tasks, ffmpeg_runs, returncode, uploads,
                    error, error_message, failed_task, failed_cause, rmtree_calls,
                    rmtree_failed >>
    /\ pipeUnchanged

\* faulty variant: a failed download is swallowed and the loop goes on
DownloadRaisesIgnored ==
    /\ DownloadCallable
    /\ downloads' = Append(downloads, task_index)
    /\ failed_task' = task_index
    /\ \E cause \in DownloadCauses : failed_cause' = cause
    /\ task_index' = task_index + 1
    /\ ppc' = IF task_index = Len(download_tasks) THEN "ffmpeg" ELSE "download"
    /\ UNCHANGED << temp_dir_exists, download_tasks, ffmpeg_runs, returncode, uploads,
                    error, error_message, rmtree_calls, rmtree_failed >>
    /\ pipeUnchanged

\* lines 106-112: the adapter call of the current task raised; nothing in the loop
\* catches it
DownloadRaises ==
    /\ DownloadCallable
    /\ downloads' = Append(downloads, task_index)
    /\ failed_task' = task_index
    /\ \E cause \in DownloadCauses :
         /\ failed_cause' = cause
         /\ Raise(DownloadError(download_tasks[task_index].type, cause))
    /\ UNCHANGED << temp_dir_exists, download_tasks, task_index, ffmpeg_runs, returncode,
                    uploads, rmtree_calls, rmtree_failed >>
    /\ pipeUnchanged

\* lines 116-131: generate the command, subprocess.run, returncode 0
RunFfmpeg ==
    /\ ppc = "ffmpeg"
    /\ ffmpeg_runs' = ffmpeg_runs + 1
    /\ returncode' = 0
    /\ ppc' = "upload"
    /\ UNCHANGED << temp_dir_exists, download_tasks, task_index, downloads, uploads, error,
                    error_message, failed_task, failed_cause, rmtree_calls,
                    rmtree_failed >>
    /\ pipeUnchanged

\* exit statuses of a failed compositor run
FailureCodes == { 1, 255 }

\* faulty variant: the message does not point to the diagnostic output
FfmpegFailedMessagePlain(code) == "FFmpeg failed."
\* line 128: the message of the exception raised for a failed run; the captured
\* result.stderr itself goes to sys.stderr (lines 124-126), not into the message
FfmpegFailedMessage(code) ==
    "FFmpeg failed (return code " \o ToString(code) \o "). See logs for full stderr."

\* faulty variant: a failed run is logged and the pipeline goes on to the upload
RunFfmpegFailsIgnored ==
    /\ ppc = "ffmpeg"
    /\ ffmpeg_runs' = ffmpeg_runs + 1
    /\ \E code \in FailureCodes : returncode' = code
    /\ ppc' = "upload"
    /\ UNCHANGED << temp_dir_exists, download_tasks, task_index, downloads, uploads, error,
                    error_message, failed_task, failed_cause, rmtree_calls,
                    rmtree_failed >>
    /\ pipeUnchanged

\* lines 121-128: returncode != 0, raise Exception("FFmpeg failed ...")
RunFfmpegFails ==
    /\ ppc = "ffmpeg"
    /\ ffmpeg_runs' = ffmpeg_runs + 1
    /\ \E code \in FailureCodes :
         /\ returncode' = code
         /\ error_message' = FfmpegFailedMessage(code)
    /\ error' = "Exception"
    /\ ppc' = "cleanup"
    /\ UNCHANGED << temp_dir_exists, download_tasks, task_index, downloads, uploads,
                    failed_task, failed_cause, rmtree_calls, rmtree_failed >>
    /\ pipeUnchanged

\* lines 134-149: the destination parameters the upload needs are present
TargetIsValid(r) ==
    \/ r.output_target \in {"gdrive", "s3"}
    \/ r.output_target = "s3_no_bucket_name" /\ r.default_s3_bucket

TargetKind(r) == IF r.output_target = "gdrive" THEN "gdrive" ELSE "s3"

\* lines 136, 144, 149: raise ValueError, no upload call
UploadInvalidTarget ==
    /\ ppc = "upload"
    /\ ~TargetIsValid(request)
    /\ Raise("ValueError")
    /\ UNCHANGED << temp_dir_exists, download_tasks, task_index, downloads, ffmpeg_runs,
                    returncode, uploads, failed_task, failed_cause, rmtree_calls,
                    rmtree_failed >>
    /\ pipeUnchanged

\* lines 138-150: the upload returned, return final_output_details
UploadOk ==
    /\ ppc = "upload"
    /\ TargetIsValid(request)
    /\ uploads' = uploads + 1
    /\ ppc' = "cleanup"
    /\ UNCHANGED << temp_dir_exists, download_tasks, task_index, downloads, ffmpeg_runs,
                    returncode, error, error_message, failed_task, failed_cause,
                    rmtree_calls, rmtree_failed >>
    /\ pipeUnchanged

\* what a failed upload raises: s3_toolkit.upload_file_to_s3 lines 68-102,
\* gdrive_service.upload_file_to_gdrive lines 93-115
UploadCauses == {"api", "other"}

UploadError(kind, cause) ==
    IF kind = "gdrive" /\ cause = "other" THEN "OtherError" ELSE "ConnectionError"

\* lines 138, 146: the upload raised
UploadRaises ==
    /\ ppc = "upload"
    /\ TargetIsValid(request)
    /\ uploads' = uploads + 1
    /\ \E cause \in UploadCauses : Raise(UploadError(TargetKind(request), cause))
    /\ UNCHANGED << temp_dir_exists, download_tasks, task_index, downloads, ffmpeg_runs,
                    returncode, failed_task, failed_cause, rmtree_calls, rmtree_failed >>
    /\ pipeUnchanged

\* after the finally block: return to the caller or let the exception go on
Leave == IF error = "none" THEN "returned" ELSE "raised"

\* faulty variant: the directory is removed on the success path only
CleanupOnSuccessOnly ==
    /\ ppc = "cleanup"
    /\ temp_dir_exists
    /\ temp_dir_exists' = (error # "none")
    /\ rmtree_calls' = IF error = "none" THEN rmtree_calls + 1 ELSE rmtree_calls
    /\ ppc' = Leave
    /\ UNCHANGED << download_tasks, task_index, downloads, ffmpeg_runs, returncode,
                    uploads, error, error_message, failed_task, failed_cause,
                    rmtree_failed >>
    /\ pipeUnchanged

\* lines 154-159: finally: shutil.rmtree(temp_dir) removed the directory
Cleanup ==
    /\ ppc = "cleanup"
    /\ temp_dir_exists
    /\ temp_dir_exists' = FALSE
    /\ rmtree_calls' = rmtree_calls + 1
    /\ ppc' = Leave
    /\ UNCHANGED << download_tasks, task_index, downloads, ffmpeg_runs, returncode,
                    uploads, error, error_message, failed_task, failed_cause,
                    rmtree_failed >>
    /\ pipeUnchanged

\* faulty variant: the error of shutil.rmtree leaves the finally block and
\* replaces the outcome of the body
CleanupRaisesMasks ==
    /\ ppc = "cleanup"
    /\ temp_dir_exists
    /\ rmtree_calls' = rmtree_calls + 1
    /\ rmtree_failed' = TRUE
    /\ error' = "OSError"
    /\ error_message' = Str("OSError")
    /\ ppc' = "raised"
    /\ UNCHANGED << temp_dir_exists, download_tasks, task_index, downloads, ffmpeg_runs,
                    returncode, uploads, failed_task, failed_cause >>
    /\ pipeUnchanged

\* lines 160-161: shutil.rmtree raised; it is logged and the directory stays
CleanupRaises ==
    /\ ppc = "cleanup"
    /\ temp_dir_exists
    /\ rmtree_calls' = rmtree_calls + 1
    /\ rmtree_failed' = TRUE
    /\ ppc' = Leave
    /\ UNCHANGED << temp_dir_exists, download_tasks, task_index, downloads, ffmpeg_runs,
                    returncode, uploads, error, error_message, failed_task, failed_cause >>
    /\ pipeUnchanged

(***************************************************************************)
(* routes/v1/ffmpeg/ffmpeg_compose.py handle_ffmpeg_compose                *)
(***************************************************************************)
\* the JSON body as the handler's tests see it:
\*   not_a_dict          data is not a dict (line 42)
\*   inputs_not_a_dict   data["inputs"] is not a dict (line 47)
\*   not_video_assembly  inputs lacks image_sequence (a list) or audio_input (a dict)
\*   no_output_filename  inputs has image_sequence (a list) and audio_input (a dict)
\*                       and no output_filename
\*   video_assembly      inputs has all three
Payloads == { "not_a_dict", "inputs_not_a_dict", "not_video_assembly",
              "no_output_filename", "video_assembly" }

\* the bodies whose inputs carry image_sequence and audio_input, with the rest
\* of an Assembly Request around them
AssemblyPayloads == { "no_output_filename", "video_assembly" }

\* lines 52-58: is_video_assembly_request
is_video_assembly_request(data) == data = "video_assembly"

\* video_assembly_service.py:55: inputs.get("output_filename",
\* f"video_assembly_{job_id}.mp4")
output_filename(data) ==
    IF data = "no_output_filename" THEN "video_assembly_" \o "job_id" \o ".mp4"
                                   ELSE "out.mp4"

\* lines 52-58 need inputs with image_sequence (a list), audio_input (a dict) and
\* output_filename; such a body may still lack `outputs`, or carry an empty
\* list or an empty dict
RoutedRequests == { r \in Requests : r.shape # "no_inputs" }

NoTuple == [message |-> "", code |-> 0]

\* faulty variant: no clause for ConnectionError, it falls to the catch-all
ExceptClausesNoConnection(exc) ==
    CASE exc = "ValueError"          -> [message |-> Str(exc), code |-> 400]
      [] exc = "FileNotFoundError"   -> [message |-> Str(exc), code |-> 404]
      [] exc = "NotImplementedError" -> [message |-> Str(exc), code |-> 501]
      [] exc = "ImportError"         ->
            [message |-> "Internal server error: Required module missing.", code |-> 500]
      [] OTHER                       ->
            [message |-> "Internal server error during media processing.", code |-> 500]
\* lines 84-104: the except clauses, tried in order
ExceptClauses(exc) ==
    CASE exc = "ValueError"          -> [message |-> Str(exc), code |-> 400]
      [] exc = "FileNotFoundError"   -> [message |-> Str(exc), code |-> 404]
      [] exc = "ConnectionError"     -> [message |-> Str(exc), code |-> 502]
      [] exc = "NotImplementedError" -> [message |-> Str(exc), code |-> 501]
      [] exc = "ImportError"         ->
            [message |-> "Internal server error: Required module missing.", code |-> 500]
      [] OTHER                       ->
            [message |-> "Internal server error during media processing.", code |-> 500]

RouteIdle ==
    /\ payload = "none"
    /\ hpc = "idle"
    /\ response_tuple = NoTuple

routeUnchanged == UNCHANGED << payload, request, temp_dir_exists, download_tasks,
                               task_index, downloads, ffmpeg_runs, returncode, uploads,
                               error, error_message, failed_task, failed_cause,
                               rmtree_calls, rmtree_failed,
                               engineVars, cmdVars >>

\* the handler returns its tuple
ReturnTuple(t) ==
    /\ response_tuple' = t
    /\ hpc' = "returned"

\* lines 42-44: data is not a dict
RouteInvalidPayload ==
    /\ hpc = "entry"
    /\ payload = "not_a_dict"
    /\ ReturnTuple([message |-> "Invalid JSON payload received.", code |-> 400])
    /\ UNCHANGED ppc
    /\ routeUnchanged

\* lines 46-49: inputs is not a dict
RouteInvalidInputs ==
    /\ hpc = "entry"
    /\ payload = "inputs_not_a_dict"
    /\ ReturnTuple([message |-> "Invalid JSON payload structure: 'inputs' must be an object.",
                    code |-> 400])
    /\ UNCHANGED ppc
    /\ routeUnchanged

\* lines 75-78, 94-96: raise NotImplementedError, caught by its clause
RouteNotImplemented ==
    /\ hpc = "entry"
    /\ payload \notin { "not_a_dict", "inputs_not_a_dict" }
    /\ ~is_video_assembly_request(payload)
    /\ ReturnTuple(ExceptClauses("NotImplementedError"))
    /\ UNCHANGED ppc
    /\ routeUnchanged

\* lines 60-70: call video_assembly_service.process_video_assembly(data, job_id);
\* the name is bound by the import at line 10, so the test of line 62 is false
RouteCallService ==
    /\ hpc = "entry"
    /\ payload \notin { "not_a_dict", "inputs_not_a_dict" }
    /\ is_video_assembly_request(payload)
    /\ hpc' = "service"
    /\ ppc' = "start"
    /\ UNCHANGED response_tuple
    /\ routeUnchanged

\* lines 71-74: the service returned, return result, endpoint_name, 200
RouteReturnResult ==
    /\ hpc = "service"
    /\ ppc = "returned"
    /\ ReturnTuple([message |-> "result", code |-> 200])
    /\ UNCHANGED ppc
    /\ routeUnchanged

\* lines 84-104: the service raised, the matching except clause returns
RouteExcept ==
    /\ hpc = "service"
    /\ ppc = "raised"
    /\ ReturnTuple(ExceptClauses(error))
    /\ UNCHANGED ppc
    /\ routeUnchanged

EngineIdle ==
    /\ EngineInit
    /\ max_queue_length = 0

Init == EngineInit /\ CmdIdle /\ PipeIdle /\ RouteIdle

Next ==
    \/ \E t \in Threads : Begin(t)
    \/ \E t \in Threads : BypassLogRunning(t)
    \/ \E t \in Threads : BypassLogRunningRaises(t)
    \/ \E t \in Threads : BypassCall(t)
    \/ \E t \in Threads : BypassLogDone(t)
    \/ \E t \in Threads : BypassLogDoneRaises(t)
    \/ \E t \in Threads : BypassExcept(t)
    \/ \E t \in Threads : BypassExceptRaises(t)
    \/ \E t \in Threads : Check(t)
    \/ \E t \in Threads : Reject(t)
    \/ \E t \in Threads : LogQueued(t)
    \/ \E t \in Threads : LogQueuedRaises(t)
    \/ \E t \in Threads : Put(t)
    \/ \E t \in Threads : PutRaises(t)
    \/ \E t \in Threads : PutFailed(t)
    \/ \E t \in Threads : PutFailedRaises(t)
    \/ \E t \in Threads : Ack(t)
    \/ \E w \in WorkerThreads : Get(w)
    \/ \E w \in WorkerThreads : LogRunning(w)
    \/ \E w \in WorkerThreads : LogRunningRaises(w)
    \/ \E w \in WorkerThreads : Call(w)
    \/ \E w \in WorkerThreads : LogDone(w)
    \/ \E w \in WorkerThreads : LogDoneRaises(w)
    \/ \E w \in WorkerThreads : Except(w)
    \/ \E w \in WorkerThreads : ExceptRaises(w)
    \/ \E w \in WorkerThreads : TaskDone(w)

Spec == Init /\ [][Next]_vars

\* one step of process_queue on thread w
WorkerNext(w) ==
    \/ Get(w)
    \/ LogRunning(w)
    \/ LogRunningRaises(w)
    \/ Call(w)
    \/ LogDone(w)
    \/ LogDoneRaises(w)
    \/ Except(w)
    \/ ExceptRaises(w)
    \/ TaskDone(w)

\* the worker thread is scheduled fairly and every call it makes (the closure,
\* a sink write, task_done) returns or raises; request threads may stop anywhere
FairSpec == Spec /\ \A w \in WorkerThreads : WF_vars(WorkerNext(w))

\* one step of queue_task.wrapper on request thread t
RequestNext(t) ==
    \/ Begin(t)
    \/ BypassLogRunning(t)
    \/ BypassLogRunningRaises(t)
    \/ BypassCall(t)
    \/ BypassLogDone(t)
    \/ BypassLogDoneRaises(t)
    \/ BypassExcept(t)
    \/ BypassExceptRaises(t)
    \/ Check(t)
    \/ Reject(t)
    \/ LogQueued(t)
    \/ LogQueuedRaises(t)
    \/ Put(t)
    \/ PutRaises(t)
    \/ PutFailed(t)
    \/ PutFailedRaises(t)
    \/ Ack(t)

\* faulty variant: two request threads run the wrapper at the same time
NextSerialOverlapping ==
    \/ \E t \in Threads : RequestNext(t)
    \/ \E w \in WorkerThreads : WorkerNext(w)

\* requests arrive one at a time: a single request thread beside the worker
NextSerial ==
    \/ RequestNext("t1")
    \/ \E w \in WorkerThreads : WorkerNext(w)

SpecSerial == Init /\ [][NextSerial]_vars

FairSpecSerial == SpecSerial /\ \A w \in WorkerThreads : WF_vars(WorkerNext(w))

\* the request is drawn from the bounded set of well-formed Assembly Requests
InitCmd ==
    /\ EngineIdle
    /\ cmd_request \in CmdRequests
    /\ ffmpeg_command = << >>
    /\ PipeIdle
    /\ RouteIdle

NextCmd == GenerateCommand

SpecCmd == InitCmd /\ [][NextCmd]_vars

\* the request is drawn from the bounded set of Assembly Requests
InitPipe ==
    /\ EngineIdle
    /\ CmdIdle
    /\ request \in Requests
    /\ ppc = "start"
    /\ temp_dir_exists = FALSE
    /\ download_tasks = << >>
    /\ task_index = 0
    /\ downloads = << >>
    /\ ffmpeg_runs = 0
    /\ returncode = 0
    /\ uploads = 0
    /\ error = "none"
    /\ error_message = ""
    /\ failed_task = 0
    /\ failed_cause = "none"
    /\ rmtree_calls = 0
    /\ rmtree_failed = FALSE
    /\ RouteIdle

NextPipe ==
    \/ ValidateRaises
    \/ Mkdtemp
    \/ BuildTasks
    \/ BuildRaises
    \/ DownloadMissingBucket
    \/ DownloadOk
    \/ DownloadRaises
    \/ RunFfmpeg
    \/ RunFfmpegFails
    \/ UploadInvalidTarget
    \/ UploadOk
    \/ UploadRaises
    \/ Cleanup
    \/ CleanupRaises

SpecPipe == InitPipe /\ [][NextPipe]_vars

\* the handler is entered with a body drawn from the bounded set of bodies
InitRoute ==
    /\ EngineIdle
    /\ CmdIdle
    /\ payload \in Payloads
    /\ request \in IF payload \in AssemblyPayloads THEN RoutedRequests ELSE { NoRequest }
    /\ hpc = "entry"
    /\ response_tuple = NoTuple
    /\ ppc = "idle"
    /\ temp_dir_exists = FALSE
    /\ download_tasks = << >>
    /\ task_index = 0
    /\ downloads = << >>
    /\ ffmpeg_runs = 0
    /\ returncode = 0
    /\ uploads = 0
    /\ error = "none"
    /\ error_message = ""
    /\ failed_task = 0
    /\ failed_cause = "none"
    /\ rmtree_calls = 0
    /\ rmtree_failed = FALSE

NextRoute ==
    \/ RouteInvalidPayload
    \/ RouteInvalidInputs
    \/ RouteNotImplemented
    \/ RouteCallService
    \/ RouteReturnResult
    \/ RouteExcept
    \/ NextPipe

SpecRoute == InitRoute /\ [][NextRoute]_vars

(***************************************************************************)
(* One request to POST /v1/ffmpeg/compose: queue_task.wrapper, the worker  *)
(* and handle_ffmpeg_compose as the execution closure                      *)
(***************************************************************************)
\* the bodies that reach the handler through the wrapper: a body that is not a
\* dict ends the wrapper at data.get (decorators.py:32) before a job exists
ComposePayloads == Payloads \ { "not_a_dict" }

\* decorators.py:28-32 for a body that is no JSON object (null, a list, a
\* number): data.get("webhook_url") raises AttributeError outside any try, the
\* HTTP layer answers 500; nothing was recorded and the handler is not entered.
\* The response is kept under the id the request would have had.
ComposeSubmitRaises(t) ==
    /\ next_id = 1
    /\ rpc[t] = "idle"
    /\ payload \notin ComposePayloads
    /\ next_id' = next_id + 1
    /\ http' = [http EXCEPT ![next_id] =
                   [code |-> 500, body |-> UnhandledBody, queue_length |-> 0]]
    /\ UNCHANGED << task_queue, unfinished_tasks, job_path, rpc, rjob, rres, sink,
                    put_order, calls, raised, faults >>
    /\ reqUnchanged

\* ffmpeg_compose.py:28: the endpoint is decorated with bypass_queue=False, so
\* the branch of decorators.py:35 goes to the queued path
ComposeSubmit(t) ==
    /\ next_id = 1
    /\ payload \in ComposePayloads
    /\ Begin(t)
    /\ job_path'[next_id] = "queued"

\* faulty variant: the handler re-raises what the service raised, so the
\* closure ends in that exception
ComposeReturnsReraising(w) ==
    /\ wpc[w] = "in_call"
    /\ hpc = "returned"
    /\ hpc' = "idle"
    /\ IF error = "none"
       THEN /\ wres' = [wres EXCEPT ![w] =
                          [ kind |-> "return", code |-> response_tuple.code,
                            result |-> response_tuple.message, exc |-> NoError ]]
            /\ wpc' = [wpc EXCEPT ![w] = "log_done"]
            /\ UNCHANGED raised
       ELSE /\ wres' = [wres EXCEPT ![w] =
                          [ kind |-> "raise", code |-> 0, result |-> "",
                            exc |-> [type |-> error, msg |-> Str(error)] ]]
            /\ wpc' = [wpc EXCEPT ![w] = "except"]
            /\ raised' = [raised EXCEPT ![wjob[w]] = [type |-> error, msg |-> Str(error)]]
    /\ UNCHANGED << max_queue_length, task_queue, unfinished_tasks, next_id, job_path,
                    rpc, rjob, rres, http, wjob, sink, put_order, start_order,
                    finish_order, calls, faults >>
    /\ UNCHANGED << payload, response_tuple, cmdVars, pipeVars >>

\* app.py:67: response_tuple = task_func_wrapper() enters the handler
\* (decorators.py:66: the closure calls f(job_id=job_id, data=data))
ComposeCall(w) ==
    /\ wpc[w] = "call"
    /\ hpc = "idle"
    /\ calls' = [calls EXCEPT ![wjob[w]] = @ + 1]
    /\ wpc' = [wpc EXCEPT ![w] = "in_call"]
    /\ hpc' = "entry"
    /\ UNCHANGED << max_queue_length, task_queue, unfinished_tasks, next_id, job_path,
                    rpc, rjob, rres, http, wjob, wres, sink, put_order, start_order,
                    finish_order, raised, faults >>
    /\ UNCHANGED << payload, response_tuple, cmdVars, pipeVars >>

\* app.py:67-69: the handler returned its tuple, unpacked into result_data,
\* endpoint_name, status_code
ComposeReturns(w) ==
    /\ wpc[w] = "in_call"
    /\ hpc = "returned"
    /\ hpc' = "idle"
    /\ wres' = [wres EXCEPT ![w] =
                  [ kind |-> "return", code |-> response_tuple.code,
                    result |-> response_tuple.message, exc |-> NoError ]]
    /\ wpc' = [wpc EXCEPT ![w] = "log_done"]
    /\ UNCHANGED << max_queue_length, task_queue, unfinished_tasks, next_id, job_path,
                    rpc, rjob, rres, http, wjob, sink, put_order, start_order,
                    finish_order, calls, raised, faults >>
    /\ UNCHANGED << payload, response_tuple, cmdVars, pipeVars >>

\* the body of the request is drawn from the bounded set of bodies; the queue
\* is empty and unbounded, no job exists yet, the handler has not been entered
InitCompose ==
    /\ EngineIdle
    /\ CmdIdle
    /\ payload \in Payloads
    /\ request \in IF payload \in AssemblyPayloads THEN RoutedRequests ELSE { NoRequest }
    /\ hpc = "idle"
    /\ response_tuple = NoTuple
    /\ ppc = "idle"
    /\ temp_dir_exists = FALSE
    /\ download_tasks = << >>
    /\ task_index = 0
    /\ downloads = << >>
    /\ ffmpeg_runs = 0
    /\ returncode = 0
    /\ uploads = 0
    /\ error = "none"
    /\ error_message = ""
    /\ failed_task = 0
    /\ failed_cause = "none"
    /\ rmtree_calls = 0
    /\ rmtree_failed = FALSE

NextCompose ==
    \/ ComposeSubmit("t1")
    \/ ComposeSubmitRaises("t1")
    \/ Check("t1")
    \/ LogQueued("t1")
    \/ LogQueuedRaises("t1")
    \/ Put("t1")
    \/ PutRaises("t1")
    \/ PutFailed("t1")
    \/ PutFailedRaises("t1")
    \/ Ack("t1")
    \/ \E w \in WorkerThreads : Get(w)
    \/ \E w \in WorkerThreads : LogRunning(w)
    \/ \E w \in WorkerThreads : LogRunningRaises(w)
    \/ \E w \in WorkerThreads : ComposeCall(w)
    \/ RouteInvalidInputs
    \/ RouteNotImplemented
    \/ RouteCallService
    \/ RouteReturnResult
    \/ RouteExcept
    \/ NextPipe
    \/ \E w \in WorkerThreads : ComposeReturns(w)
    \/ \E w \in WorkerThreads : LogDone(w)
    \/ \E w \in WorkerThreads : LogDoneRaises(w)
    \/ \E w \in WorkerThreads : Except(w)
    \/ \E w \in WorkerThreads : ExceptRaises(w)
    \/ \E w \in WorkerThreads : TaskDone(w)

SpecCompose == InitCompose /\ [][NextCompose]_vars


(***************************************************************************)
(* Properties of the job engine                                            *)
(***************************************************************************)
Range(f) == { f[i] : i \in DOMAIN f }
IsPrefix(a, b) == Len(a) <= Len(b) /\ a = SubSeq(b, 1, Len(a))
QueuedJobs == { j \in JobIds : job_path[j] = "queued" }
Started(j) == j \in Range(start_order)
Finished(j) == j \in Range(finish_order)
Wrote(j, st) == \E i \in 1..Len(sink[j]) : sink[j][i].job_status = st
\* status st was written under j before position i of the sink's record for j
WroteBefore(j, st, i) == \E k \in 1..(i - 1) : sink[j][k].job_status = st

C2_OneRunning ==
    /\ Cardinality({ j \in QueuedJobs : Started(j) /\ ~Finished(j) }) <= 1
    /\ Cardinality({ w \in DOMAIN wpc : wpc[w] # "get" }) <= 1
    /\ \A j \in QueuedJobs :
         (Started(j) /\ ~Finished(j)) => \E w \in DOMAIN wpc : wjob[w] = j /\ wpc[w] # "get"

\* the closure of one job is running while another entry waits in the queue
C2_Witness ==
    /\ \E w \in DOMAIN wpc : wpc[w] = "call" /\ Wrote(wjob[w], "running")
    /\ qsize > 0

\* C3: with max_queue_length = K > 0 and at least K entries waiting, the
\* admission test sends the submission to the rejection branch, which answers
\* 429 and neither touches the queue nor writes to the sink; a rejected job
\* never has an entry.
C3_RejectWhenFull ==
    [][ /\ \A t \in Threads :
             /\ ( /\ rpc[t] = "check" /\ rpc'[t] # "check"
                  /\ max_queue_length > 0 /\ Len(task_queue) >= max_queue_length )
                => ( rpc'[t] = "reject" /\ task_queue' = task_queue )
             /\ ( rpc[t] = "reject" /\ rpc'[t] # "reject" )
                => ( /\ http'[rjob[t]].code = 429
                     /\ task_queue' = task_queue
                     /\ put_order' = put_order
                     /\ sink' = sink )
        /\ \A j \in JobIds : http'[j].code = 429 => j \notin Range(put_order')
      ]_vars

\* a submission was rejected while exactly K entries were waiting
C3_Witness ==
    \E j \in JobIds :
        /\ max_queue_length > 0
        /\ http[j].code = 429
        /\ http[j].queue_length = max_queue_length
        /\ qsize = max_queue_length

Answered(j) == http[j].code # 0
Occurrences(seq, x) == Cardinality({ i \in 1..Len(seq) : seq[i] = x })

\* C4 as stated: with max_queue_length = 0 every queued-path submission records
\* `queued`, appends one entry and returns 202.
C4_AlwaysAccepted ==
    max_queue_length = 0 =>
        \A j \in QueuedJobs :
            Answered(j) => ( /\ http[j].code = 202
                             /\ Wrote(j, "queued")
                             /\ Occurrences(put_order, j) = 1 )

\* C4 amended: with max_queue_length = 0 no queued-path submission is rejected
\* with 429, whatever the queue length; it records `queued`, appends exactly one
\* entry and returns 202 unless the sink write or Queue.put itself raised, and
\* then it returns 500 and no entry exists.
C4_NeverRejectedUnbounded ==
    max_queue_length = 0 =>
        /\ \A t \in Threads : rpc[t] # "reject"
        /\ \A j \in QueuedJobs :
             Answered(j) =>
                /\ http[j].code \in {202, 500}
                /\ http[j].code = 202 =>
                      ( Wrote(j, "queued") /\ Occurrences(put_order, j) = 1 )
                /\ http[j].code = 500 =>
                      ( faults > 0 /\ Occurrences(put_order, j) = 0 )

\* unbounded configuration: a submission was acknowledged with 202 while the queue
\* held two entries
C4_Witness ==
    /\ max_queue_length = 0
    /\ \E j \in QueuedJobs : http[j].code = 202
    /\ qsize >= 2

Q_R_D == << "queued", "running", "done" >>
Q_R_F == << "queued", "running", "failed" >>

\* C5 as stated: the statuses written under a queued-path job id are a prefix
\* of queued, running, done or of queued, running, failed.
C5_PrefixOnly ==
    \A j \in QueuedJobs : IsPrefix(Statuses(j), Q_R_D) \/ IsPrefix(Statuses(j), Q_R_F)

\* C5 amended: the statuses written under a queued-path job id are a prefix of
\* queued, running, done or of queued, running, failed, or they are queued,
\* failed when Queue.put raised or the worker's `running` report raised (the
\* closure was then never invoked). `queued` is written before the entry is
\* visible to the worker, `running` before the closure is invoked, `done` only
\* after the closure returned.
C5_StatusSequence ==
    \A j \in QueuedJobs :
        /\ \/ IsPrefix(Statuses(j), Q_R_D)
           \/ IsPrefix(Statuses(j), Q_R_F)
           \/ ( Statuses(j) = << "queued", "failed" >> /\ calls[j] = 0 /\ faults > 0 )
        /\ j \in Range(put_order) => Wrote(j, "queued")
        /\ calls[j] > 0 => Wrote(j, "running")
        /\ Wrote(j, "done") => calls[j] = 1

\* one queued job went queued, running, done and another queued, running, failed
C5_Witness ==
    \E a, b \in QueuedJobs : Statuses(a) = Q_R_D /\ Statuses(b) = Q_R_F

\* C6 as stated: on either path `done` or `failed` is written only after
\* `running` was written under the same job id.
C6_TerminalAfterRunning ==
    \A j \in JobIds : \A i \in 1..Len(sink[j]) :
        sink[j][i].job_status \in {"done", "failed"} => WroteBefore(j, "running", i)

\* C6 amended: on either path `done` is written only after `running` was
\* written under the same job id; `failed` is written after `running` except
\* where the handler was never invoked: Queue.put raised (queued, failed) or
\* the `running` report itself raised (failed without running).
C6_DoneAfterRunning ==
    \A j \in JobIds : \A i \in 1..Len(sink[j]) :
        /\ sink[j][i].job_status = "done" => WroteBefore(j, "running", i)
        /\ sink[j][i].job_status = "failed" =>
              \/ WroteBefore(j, "running", i)
              \/ ( calls[j] = 0 /\ faults > 0 )

\* a bypass job failed after running and a queued job is done after running
C6_Witness ==
    /\ \E j \in JobIds : job_path[j] = "bypass" /\ Statuses(j) = << "running", "failed" >>
    /\ \E j \in QueuedJobs : Statuses(j) = Q_R_D

BypassJobs == { j \in JobIds : job_path[j] = "bypass" }
\* the invocation of f for job j ended in an exception
HandlerRaised(j) == raised[j] # NoError
\* the last snapshot written under job id j (the sink is not empty)
LastSnapshot(j) == sink[j][Len(sink[j])]

\* C11: on the bypass path, when the handler raises, the caller receives HTTP
\* 500 with a body that does not depend on the exception: "Processing failed"
\* from the except block, or the HTTP layer's own 500 when the failure report
\* to the sink raised in turn. The response is the same record whatever the
\* exception's type and message were.
C11_GenericBypassFailure ==
    \A j \in BypassJobs :
        (HandlerRaised(j) /\ Answered(j)) =>
            http[j] = [ code |-> 500,
                        body |-> IF Wrote(j, "failed") THEN "Processing failed"
                                                       ELSE "Internal Server Error",
                        queue_length |-> 0 ]

\* two bypass requests whose handlers ended in exceptions of different type and
\* message were answered with the same response
C11_Witness ==
    \E a, b \in BypassJobs :
        /\ raised[a] = HandlerError
        /\ raised[b] = UnpackError
        /\ Wrote(a, "failed") /\ Wrote(b, "failed")
        /\ http[a].code = 500
        /\ http[a] = http[b]

\* the text carries the detail: it is the detail or ends with it
Carries(text, detail) ==
    \/ text = detail
    \/ text = "Internal server error during sync execution: " \o detail

\* C12 as stated: on the bypass path, when the handler raises, the `failed`
\* snapshot written for the job carries the message of the raised exception.
C12_SnapshotCarriesMessage ==
    \A j \in BypassJobs :
        (HandlerRaised(j) /\ Wrote(j, "failed")) =>
            Carries(LastSnapshot(j).response.message, raised[j].msg)

\* C12 amended: on the bypass path, when the handler raises, the `failed`
\* snapshot written for the job names the type of the raised exception
\* ("Internal server error during sync execution: <type name>") with code 500;
\* the exception's message is not in it.
C12_SnapshotNamesErrorType ==
    \A j \in BypassJobs :
        (HandlerRaised(j) /\ Wrote(j, "failed")) =>
            /\ Statuses(j) = << "running", "failed" >>
            /\ LastSnapshot(j).response =
                  [ code |-> 500,
                    message |-> "Internal server error during sync execution: "
                                  \o raised[j].type ]
            /\ ~Carries(LastSnapshot(j).response.message, raised[j].msg)

\* a bypass job whose handler raised RuntimeError("boom") has its failed snapshot
C12_Witness ==
    \E j \in BypassJobs :
        /\ raised[j] = HandlerError
        /\ Statuses(j) = << "running", "failed" >>
        /\ LastSnapshot(j).response.message =
              "Internal server error during sync execution: RuntimeError"
        /\ Answered(j)

\* C13 as stated: when the execution closure of a dequeued entry raises (or its
\* return value cannot be unpacked), the worker writes `failed` under the
\* entry's job id with a response carrying the exception's message, and never
\* writes `done` for it.
C13_FailedWithMessage ==
    \A j \in QueuedJobs :
        HandlerRaised(j) =>
            /\ ~Wrote(j, "done")
            /\ Finished(j) =>
                  /\ Wrote(j, "failed")
                  /\ LastSnapshot(j).response.message = raised[j].msg

\* C13 amended: when the execution closure of a dequeued entry raises (or its
\* return value cannot be unpacked), the worker never writes `done` for that job
\* and reports `failed` with a response carrying the exception's message; the
\* sink shows that snapshot unless the report itself raised, and then the job's
\* last status stays `running`.
C13_FailedUnlessReportRaises ==
    \A j \in QueuedJobs :
        HandlerRaised(j) =>
            /\ ~Wrote(j, "done")
            /\ Wrote(j, "failed") =>
                  /\ Statuses(j) = Q_R_F
                  /\ LastSnapshot(j).response.message = raised[j].msg
            /\ Finished(j) =>
                  \/ Wrote(j, "failed")
                  \/ ( Statuses(j) = << "queued", "running" >> /\ faults > 0 )

\* the worker finished one job whose closure raised and one whose return value
\* could not be unpacked; both have a failed snapshot with the exception's message
C13_Witness ==
    \E a, b \in QueuedJobs :
        /\ Finished(a) /\ Finished(b)
        /\ raised[a] = HandlerError /\ raised[b] = UnpackError
        /\ LastSnapshot(a) = [ job_status |-> "failed",
                               response |-> [code |-> 0, message |-> "boom"] ]
        /\ LastSnapshot(b).response.message = "not enough values to unpack"

\* C14 as stated: every entry waiting in the queue, whatever happened to the
\* jobs before it, is eventually dequeued and its closure run.
C14_EveryEntryRun ==
    \A j \in JobIds : (j \in Range(task_queue)) ~> (calls[j] > 0)

\* C14 amended: the worker loop never stops because of a job: every entry
\* waiting in the queue, also after a job whose closure raised or whose failure
\* report raised, is eventually dequeued and processed to completion (task_done
\* called); its closure is run exactly once unless the `running` report for it
\* raised, and then it is not run at all.
C14_EveryEntryProcessed ==
    \A j \in JobIds :
        (j \in Range(task_queue)) ~>
            ( /\ Finished(j)
              /\ \/ calls[j] = 1
                 \/ ( calls[j] = 0 /\ ~Wrote(j, "running") /\ faults > 0 ) )

\* the closure of the first entry raised, the report of that failure raised too,
\* and the entry put after it was run and finished
C14_Witness ==
    /\ Len(finish_order) = 2
    /\ HandlerRaised(finish_order[1])
    /\ Statuses(finish_order[1]) = << "queued", "running" >>
    /\ calls[finish_order[2]] = 1
    /\ Statuses(finish_order[2]) = Q_R_D

\* worker threads that hold a dequeued entry
Busy == { w \in DOMAIN wpc : wpc[w] # "get" }

\* C15: the worker calls task_done exactly once for every dequeued entry,
\* whether the closure succeeded, raised, or the failure report itself raised:
\* every dequeued entry is either in the worker's hands or was signalled once.
\* Hence the queue's count of unfinished items equals the number of waiting
\* entries plus the entry being processed, and it is zero once every enqueued
\* entry has been processed.
C15_TaskDoneExactlyOnce ==
    /\ \A j \in JobIds :
         /\ Occurrences(finish_order, j) <= 1
         /\ Occurrences(start_order, j) =
               Occurrences(finish_order, j)
                 + Cardinality({ w \in Busy : wjob[w] = j })
    /\ unfinished_tasks = qsize + Cardinality(Busy)
    /\ Len(put_order) = Len(finish_order) + unfinished_tasks
    /\ (Range(put_order) = Range(finish_order)) <=> (unfinished_tasks = 0)

\* two entries were processed, one whose closure returned and one whose closure
\* raised and whose failure report raised too; the count is back to zero
C15_Witness ==
    /\ unfinished_tasks = 0
    /\ Len(finish_order) = 2
    /\ Statuses(finish_order[1]) = Q_R_D
    /\ HandlerRaised(finish_order[2])
    /\ Statuses(finish_order[2]) = << "queued", "running" >>

\* C16: the admission bound is soft. The length test admits a submission only
\* when it sees fewer than K entries, but the enqueue is a later, separate step
\* that appends whatever the length has become meanwhile; so with
\* max_queue_length = K > 0 concurrent submissions can leave more than K entries
\* waiting (the witness), the excess being at most the number of concurrent
\* request threads less one.
C16_SoftBound ==
    [][ /\ \A t \in Threads :
             /\ ( rpc[t] = "check" /\ rpc'[t] = "log_queued" /\ max_queue_length > 0 )
                   => Len(task_queue) < max_queue_length
             /\ ( rpc[t] = "put" /\ rpc'[t] = "ack" )
                   => task_queue' = Append(task_queue, rjob[t])
        /\ max_queue_length > 0 =>
             Len(task_queue') <= max_queue_length + Cardinality(Threads) - 1
      ]_vars

\* two concurrent submissions both passed the test with K = 1 and both were
\* acknowledged with 202: two entries are waiting
C16_Witness ==
    /\ max_queue_length > 0
    /\ qsize > max_queue_length
    /\ \A j \in Range(task_queue) : http[j].code = 202

\* the submission with job id j was (or is being) answered with 429
Rejected(j) ==
    \/ http[j].code = 429
    \/ \E t \in Threads : rpc[t] = "reject" /\ rjob[t] = j

\* C17: a queued-path submission rejected with 429 writes no status to the
\* sink, appends nothing to the queue and never invokes the handler: nothing is
\* ever recorded under its job id, so it never appears as `running` or `done`.
C17_RejectedLeavesNoTrace ==
    \A j \in JobIds :
        Rejected(j) =>
            /\ job_path[j] = "queued"
            /\ sink[j] = << >>
            /\ j \notin Range(put_order)
            /\ j \notin Range(task_queue)
            /\ j \notin Range(start_order)
            /\ calls[j] = 0

\* a submission was rejected while the entry ahead of it waited; that entry has
\* since been run to `done` and the rejected id still has no record
C17_Witness ==
    \E j, i \in QueuedJobs :
        /\ http[j].code = 429
        /\ sink[j] = << >>
        /\ calls[j] = 0
        /\ Statuses(i) = Q_R_D
        /\ Finished(i)

\* job j is running: `running` was reported for it, no terminal status yet, and
\* the thread that executes it (the request thread of a bypass job, the worker
\* for a queued job) has not finished with it
Running(j) ==
    /\ Wrote(j, "running")
    /\ ~Wrote(j, "done") /\ ~Wrote(j, "failed")
    /\ \/ j \in BypassJobs /\ \E t \in Threads : rjob[t] = j
       \/ \E w \in DOMAIN wpc : wjob[w] = j

\* C18: two jobs are running at the same time only if at least one of them is
\* a bypass job; two queued-path jobs never overlap. (A bypass job overlapping
\* the worker's job is the witness; two overlapping bypass jobs are reachable
\* too, C18_BypassPairOverlap.)
C18_OverlapNeedsBypass ==
    \A a, b \in JobIds :
        (a # b /\ Running(a) /\ Running(b)) => (a \in BypassJobs \/ b \in BypassJobs)

\* a bypass job's handler and the worker's closure are both executing
C18_Witness ==
    \E a \in BypassJobs, b \in QueuedJobs :
        /\ Running(a) /\ Running(b)
        /\ \E t \in Threads : rjob[t] = a /\ rpc[t] = "b_log_done"
        /\ \E w \in DOMAIN wpc : wjob[w] = b /\ wpc[w] = "log_done"

\* two bypass jobs' handlers are both executing, on two request threads
C18_BypassPairOverlap ==
    \E a, b \in BypassJobs :
        /\ a # b
        /\ Running(a) /\ Running(b)
        /\ \A t \in Threads : rpc[t] = "b_log_done"

\* C19 as stated: every job admitted to the queue eventually has a terminal
\* status (`done` or `failed`) in the sink.
C19_EventuallyTerminal ==
    \A j \in JobIds :
        (j \in Range(put_order)) ~> (Wrote(j, "done") \/ Wrote(j, "failed"))

\* C19 amended: every job admitted to the queue is eventually finished by the
\* worker, and by then the sink holds a terminal status (`done` or `failed`)
\* for it unless the report of its failure raised; only in that case does the
\* job's last status stay `queued` or `running`.
C19_EventuallyFinished ==
    \A j \in JobIds :
        (j \in Range(put_order)) ~>
            ( /\ Finished(j)
              /\ \/ Wrote(j, "done")
                 \/ Wrote(j, "failed")
                 \/ ( faults > 0 /\ IsPrefix(Statuses(j), << "queued", "running" >>) ) )

\* every admitted job is finished and has its terminal status, one `done` and
\* one `failed`; the worker is back at its blocking get
C19_Witness ==
    /\ Len(put_order) = 2
    /\ finish_order = put_order
    /\ Statuses(put_order[1]) = Q_R_F
    /\ Statuses(put_order[2]) = Q_R_D
    /\ \A w \in DOMAIN wpc : wpc[w] = "get"
    /\ faults = 0

\* the outcome record of the `done` snapshot written under job id j
DoneRecord(j) ==
    sink[j][CHOOSE i \in 1..Len(sink[j]) : sink[j][i].job_status = "done"].response

\* the three fields the outcome records of the two paths have in common
Common(rec) == [ code |-> rec.code, response |-> rec.response, message |-> rec.message ]

\* what the handler outcome o = (result, status code) determines for them
OutcomeOf(o) ==
    [ code     |-> o.code,
      response |-> IF o.code = 200 THEN o.result ELSE "None",
      message  |-> IF o.code = 200 THEN "success" ELSE o.result ]

\* any two `done` records of jobs whose handlers returned the same status code
\* (hence the same result) agree on code, response and message
SameOutcomeSameRecord ==
    \A a, b \in JobIds :
        ( /\ Wrote(a, "done") /\ Wrote(b, "done")
          /\ DoneRecord(a).code = DoneRecord(b).code )
            => Common(DoneRecord(a)) = Common(DoneRecord(b))

\* C21: the outcome record written with `done` is the same function of the
\* handler outcome (result, status code) on both paths: code is the status
\* code, response is the result when the code is 200 and None otherwise, message
\* is "success" when the code is 200 and the result (the error text) otherwise.
\* Hence a bypass job and a queued job with the same handler outcome have
\* records that agree on these three fields.
C21_SameOutcomeRecord ==
    [][ /\ \A t \in Threads :
             ( rpc[t] = "b_log_done" /\ sink'[rjob[t]] # sink[rjob[t]] )
                => ( /\ sink'[rjob[t]][Len(sink'[rjob[t]])].job_status = "done"
                     /\ Common(sink'[rjob[t]][Len(sink'[rjob[t]])].response)
                           = OutcomeOf(rres[t]) )
        /\ \A w \in DOMAIN wpc :
             ( wpc[w] = "log_done" /\ sink'[wjob[w]] # sink[wjob[w]] )
                => ( /\ sink'[wjob[w]][Len(sink'[wjob[w]])].job_status = "done"
                     /\ Common(sink'[wjob[w]][Len(sink'[wjob[w]])].response)
                           = OutcomeOf(wres[w]) )
        /\ SameOutcomeSameRecord'
      ]_vars

\* a bypass job and a queued job whose handlers both returned (error text, 400)
\* are done: the two records agree on code, response and message and differ in
\* what else they carry
C21_Witness ==
    \E a \in BypassJobs, b \in QueuedJobs :
        /\ Wrote(a, "done") /\ Wrote(b, "done")
        /\ Common(DoneRecord(a)) =
              [ code |-> 400, response |-> "None", message |-> "error_text" ]
        /\ Common(DoneRecord(b)) = Common(DoneRecord(a))
        /\ DoneRecord(a) # DoneRecord(b)

R_D == << "running", "done" >>
R_F == << "running", "failed" >>

BypassFrame(j) ==
    /\ ~Wrote(j, "queued")
    /\ j \notin Range(put_order)
    /\ j \notin Range(task_queue)
    /\ j \notin Range(start_order)
    /\ \A w \in DOMAIN wpc : wjob[w] # j
    /\ calls[j] <= 1
    /\ Wrote(j, "done") =>
          /\ Statuses(j) = R_D
          /\ calls[j] = 1
          /\ DoneRecord(j).queue_time = 0
    /\ Answered(j) =>
          \/ Statuses(j) \in { R_D, R_F }
          \/ /\ faults > 0
             /\ Statuses(j) \in { << "failed" >>, << "running" >>, << >> }
             /\ http[j].code = 500
             /\ Statuses(j) = << "failed" >> => calls[j] = 0

RECURSIVE ExpectedChains(_)
ExpectedChains(m) ==
    IF m = 0 THEN ""
    ELSE ExpectedChains(m - 1)
           \o "[" \o ToString(m - 1)
           \o ":v]settb=AVTB,setpts=PTS-STARTPTS,fps=fps=25,format=pix_fmts=yuv420p[v"
           \o ToString(m - 1) \o "];"

\* the concat inputs "[v0][v1]...[v(m-1)]"
RECURSIVE ExpectedLabels(_)
ExpectedLabels(m) ==
    IF m = 0 THEN "" ELSE ExpectedLabels(m - 1) \o "[v" \o ToString(m - 1) \o "]"

CountIn(list, from, to, x) == Cardinality({ k \in from..to : list[k] = x })

\* C8: for an image list of length M >= 1 the command is "ffmpeg", then exactly
\* M groups -loop 1 -t <duration> -i <path> in image-list order, then exactly one
\* -i <audio>, then a filter graph whose concat stage is concat=n=M fed by
\* [v0]..[v(M-1)] in order, and an audio map that refers to input index M.
C8_CommandShape ==
    ffmpeg_command # << >> =>
        LET seq == cmd_request.image_sequence
            M == Len(seq)
            c == ffmpeg_command
        IN  /\ M >= 1
            /\ Len(c) >= 6 * M + 10
            /\ c[1] = "ffmpeg"
            /\ \A i \in 1..M :
                 SubSeq(c, 6 * i - 4, 6 * i + 1) =
                    << "-loop", "1", "-t", ToString(seq[i].duration),
                       "-i", local_img_path(i - 1, seq[i]) >>
            /\ SubSeq(c, 6 * M + 2, 6 * M + 3) =
                    << "-i", local_audio_path(cmd_request.audio_input) >>
            /\ CountIn(c, 1, 6 * M + 3, "-loop") = M
            /\ CountIn(c, 1, 6 * M + 3, "-i") = M + 1
            /\ c[6 * M + 4] = "-filter_complex"
            /\ c[6 * M + 5] = ExpectedChains(M) \o ExpectedLabels(M)
                                \o "concat=n=" \o ToString(M) \o ":v=1:a=0[outv]"
            /\ SubSeq(c, 6 * M + 6, 6 * M + 9) =
                    << "-map", "[outv]", "-map", ToString(M) \o ":a?" >>

\* a command was synthesized for two images of different source kinds and durations
C8_Witness ==
    /\ ffmpeg_command # << >>
    /\ Len(cmd_request.image_sequence) = 2
    /\ cmd_request.image_sequence[1].duration = 3
    /\ cmd_request.image_sequence[2].duration = 2
    /\ cmd_request.image_sequence[1].source_type = "s3_object_key"
    /\ cmd_request.image_sequence[2].source_type = "gdrive_id"
    /\ ffmpeg_command[5] = "3"
    /\ ffmpeg_command[11] = "2"

(***************************************************************************)
(* Properties of the assembly pipeline                                     *)
(***************************************************************************)
Left == ppc \in {"returned", "raised"}

\* C7 as stated: once process_video_assembly has returned or raised, for any
\* reason including a cleanup failure, the temporary working directory is gone.
C7_TempDirGone ==
    Left => ~temp_dir_exists

\* C7 amended: once process_video_assembly has returned or raised (validation,
\* download, compositor or upload failure, or success), shutil.rmtree has been
\* called once on the directory it created, and the directory no longer exists
\* unless that removal itself raised; then the failure is logged and the
\* directory stays.
C7_TempDirRemovedUnlessRmtreeFails ==
    Left =>
        /\ ~RequestIsIncomplete(request) => rmtree_calls = 1
        /\ temp_dir_exists => rmtree_failed
        /\ ~rmtree_failed => ~temp_dir_exists

\* an upload failure was raised to the caller and the directory is gone
C7_Witness ==
    /\ ppc = "raised"
    /\ uploads = 1
    /\ error = "ConnectionError"
    /\ rmtree_calls = 1
    /\ ~temp_dir_exists

DownloadErrors == {"ConnectionError", "FileNotFoundError", "PermissionError", "OtherError"}

\* C10: when a download fails the pipeline aborts there: the downloads made are
\* exactly tasks 1..failed_task, each once (no later download, no retry), the
\* compositor is never run, no upload is made, and the download's error reaches
\* the caller only after the cleanup has run.
C10_DownloadFailureAborts ==
    failed_task > 0 =>
        /\ downloads = [k \in 1..failed_task |-> k]
        /\ ffmpeg_runs = 0
        /\ uploads = 0
        /\ error \in DownloadErrors
        /\ ppc \in {"cleanup", "raised"}
        /\ ppc = "raised" => rmtree_calls = 1

\* the audio object of a two-image request is missing in the object store: the
\* pipeline raised FileNotFoundError after the first download, the directory is gone
C10_Witness ==
    /\ ppc = "raised"
    /\ Len(download_tasks) = 3
    /\ download_tasks[1].type = "s3"
    /\ failed_task = 1
    /\ error = "FileNotFoundError"
    /\ ~temp_dir_exists

(***************************************************************************)
(* Properties of the compose endpoint                                      *)
(***************************************************************************)
\* the status code the claim's taxonomy gives a failure of the service
TaxonomyCode(exc) ==
    CASE exc = "ValueError"        -> 400
      [] exc = "FileNotFoundError" -> 404
      [] exc = "ConnectionError"   -> 502
      [] OTHER                     -> 500

\* C20: at the compose endpoint a validation error gives 400, an asset not
\* found 404, an upstream connection error 502, an unrecognized request shape
\* 501, a compositor failure or any other failure 500 with the generic message;
\* the handler always ends by returning its tuple, no exception leaves it.
C20_StatusMapping ==
    /\ hpc \in { "entry", "service", "returned" }
    /\ hpc # "returned" => ( response_tuple = NoTuple /\ ENABLED NextRoute )
    /\ hpc = "returned" =>
         CASE payload \in { "not_a_dict", "inputs_not_a_dict" } ->
                 response_tuple.code = 400
           [] payload \in { "not_video_assembly", "no_output_filename" } ->
                 response_tuple.code = 501
           [] OTHER ->
                 \/ /\ ppc = "returned"
                    /\ error = "none"
                    /\ response_tuple.code = 200
                 \/ /\ ppc = "raised"
                    /\ error # "none"
                    /\ response_tuple.code = TaxonomyCode(error)
                    /\ response_tuple.code = 500 =>
                          response_tuple.message =
                             "Internal server error during media processing."
                    /\ response_tuple.code # 500 => response_tuple.message = Str(error)

\* the upload of a finished video met an upstream failure: the handler returned
\* 502 with the error's text, after the directory was removed
C20_Witness ==
    /\ hpc = "returned"
    /\ ffmpeg_runs = 1
    /\ uploads = 1
    /\ error = "ConnectionError"
    /\ response_tuple = [message |-> "str(ConnectionError)", code |-> 502]
    /\ ~temp_dir_exists

\* the job of the one request made to the compose endpoint
ComposeJob == 1

\* C22 as stated: a queued video-assembly job whose pipeline raised ends with
\* status `failed` in the sink, never with `done`.
C22_PipelineErrorIsFailed ==
    ( error # "none" /\ Finished(ComposeJob) ) =>
        /\ Wrote(ComposeJob, "failed")
        /\ ~Wrote(ComposeJob, "done")

\* C22 amended: a queued video-assembly job whose pipeline raised (validation,
\* not found, connection, compositor failure) ends with status `done` in the
\* sink: the handler turned the error into its tuple, so the closure returned
\* and the recorded outcome carries the error's status code (400, 404, 502,
\* 500) with the error text as message and no result. `failed` is recorded
\* only when the `done` report itself raised, with that report's error.
C22_PipelineErrorIsDoneWithCode ==
    ( error # "none" /\ Finished(ComposeJob) ) =>
        /\ raised[ComposeJob] = NoError
        /\ \/ /\ Statuses(ComposeJob) = Q_R_D
              /\ DoneRecord(ComposeJob).code = TaxonomyCode(error)
              /\ DoneRecord(ComposeJob).code \in {400, 404, 502, 500}
              /\ DoneRecord(ComposeJob).response = "None"
              /\ DoneRecord(ComposeJob).message = response_tuple.message
              /\ response_tuple.message \in
                    { Str(error), "Internal server error during media processing." }
           \/ /\ faults > 0
              /\ Statuses(ComposeJob) = Q_R_F
              /\ LastSnapshot(ComposeJob).response.message = SinkError.msg
           \/ /\ faults > 1
              /\ Statuses(ComposeJob) = << "queued", "running" >>

\* the audio object of a queued assembly job was missing in the object store:
\* the job is finished and its last status is `done` with code 404
C22_Witness ==
    /\ Finished(ComposeJob)
    /\ error = "FileNotFoundError"
    /\ failed_task = 1
    /\ http[ComposeJob].code = 202
    /\ Statuses(ComposeJob) = Q_R_D
    /\ DoneRecord(ComposeJob).code = 404
    /\ DoneRecord(ComposeJob).message = "str(FileNotFoundError)"

\* the request has a valid image_sequence, audio_input and output target
Assemblable(r) ==
    /\ ~RequestIsIncomplete(r)
    /\ ~BuildFails(r)
    /\ \A i \in 1..Len(r.image_sequence) :
          TaskOf(r.image_sequence[i].locator, r.default_s3_bucket).type = "s3"
             => TaskOf(r.image_sequence[i].locator, r.default_s3_bucket).bucket
    /\ TaskOf(r.audio_input, r.default_s3_bucket).type = "s3"
          => TaskOf(r.audio_input, r.default_s3_bucket).bucket
    /\ TargetIsValid(r)

\* C23 (fails on the code): an Assembly Request submitted to the compose
\* endpoint without output_filename, with a valid image_sequence, audio_input
\* and output target, is handed to the pipeline and assembled under the default
\* name video_assembly_<job id>.mp4; it is not rejected.
C23_DefaultOutputName ==
    ( /\ hpc = "returned"
      /\ payload = "no_output_filename"
      /\ Assemblable(request) )
        => /\ ppc # "idle"
           /\ response_tuple.code # 501
           /\ output_filename(payload) = "video_assembly_job_id.mp4"

\* the source kind of the download task that raised
FailedKind == download_tasks[failed_task].type

\* C25 (fails on the code): for either source kind, a download whose object
\* does not exist leaves the pipeline as a Not-Found error and the handler
\* reports it with status code 404.
C25_MissingIsNotFound ==
    failed_cause = "missing" =>
        /\ error = "FileNotFoundError"
        /\ hpc = "returned" => response_tuple.code = 404

\* the object store's half of C25, which the code has: a missing object of an
\* s3 task is reported with 404
C25_ObjectStoreMissing ==
    /\ hpc = "returned"
    /\ failed_cause = "missing"
    /\ FailedKind = "s3"
    /\ response_tuple = [message |-> "str(FileNotFoundError)", code |-> 404]

\* C26 (fails on the code): for either source kind, a download that fails with
\* permission denied or with a transport error leaves the pipeline as a
\* Connection error and the handler reports it with status code 502.
C26_DeniedOrTransportIsConnection ==
    failed_cause \in { "denied", "transport", "refused" } =>
        /\ error = "ConnectionError"
        /\ hpc = "returned" => response_tuple.code = 502

\* an asset locator that is unresolvable or incomplete: no known source kind,
\* the kind's key missing, or an object-store locator with neither a bucket
\* name nor a configured default bucket
IncompleteLocator(locator, default_s3_bucket) ==
    \/ ~Resolvable(locator)
    \/ locator = "s3_no_bucket_name" /\ ~default_s3_bucket

HasIncompleteLocator(r) ==
    /\ r.shape = "ok"
    /\ \/ IncompleteLocator(r.audio_input, r.default_s3_bucket)
       \/ \E i \in 1..Len(r.image_sequence) :
             IncompleteLocator(r.image_sequence[i].locator, r.default_s3_bucket)

\* C27 (fails on the code): when some asset locator of the request (audio or
\* an image) is unresolvable or incomplete, no download of that job is ever
\* started, and the pipeline leaves with a Validation error.
C27_ValidationBeforeDownload ==
    HasIncompleteLocator(request) =>
        /\ downloads = << >>
        /\ Left => error = "ValueError"

\* the part of C27 the code has: a locator without a usable source kind or key
\* stops the pipeline while the task list is built, before any download
C27_UnresolvableStopsBuild ==
    /\ ppc = "raised"
    /\ error = "ValueError"
    /\ downloads = << >>
    /\ Resolvable(request.audio_input)
    /\ Len(request.image_sequence) = 2
    /\ Resolvable(request.image_sequence[1].locator)
    /\ ~Resolvable(request.image_sequence[2].locator)

\* C28: the pipeline builds one download task per required asset, the audio
\* first and then the images in image_sequence order, and runs them one at a
\* time in list order: the downloads started are tasks 1, 2, ... each once,
\* task i+1 is started only after task i returned (only the last started one
\* can have failed), and the compositor is invoked only after all M+1
\* downloads returned.
C28_SequentialDownloads ==
    LET M == Len(request.image_sequence)
        n == Len(downloads)
    IN  /\ download_tasks # << >> =>
              /\ Len(download_tasks) = M + 1
              /\ download_tasks[1] = TaskOf(request.audio_input, request.default_s3_bucket)
              /\ \A i \in 1..M :
                    download_tasks[i + 1] =
                       TaskOf(request.image_sequence[i].locator, request.default_s3_bucket)
        /\ downloads = [k \in 1..n |-> k]
        /\ n <= Len(download_tasks)
        /\ failed_task \in {0, n}
        /\ ppc = "download" => ( failed_task = 0 /\ task_index = n + 1 /\ n <= M )
        /\ ( ffmpeg_runs > 0 \/ ppc \in {"ffmpeg", "upload"} ) =>
              ( n = M + 1 /\ failed_task = 0 /\ download_tasks # << >> )
        /\ ffmpeg_runs <= 1

\* the audio of a two-image request came from the object store, the first image
\* from the document store, the second from the object store; the three
\* downloads were made in that order and the compositor was invoked
C28_Witness ==
    /\ ffmpeg_runs = 1
    /\ downloads = << 1, 2, 3 >>
    /\ download_tasks = << [type |-> "s3", bucket |-> TRUE],
                           [type |-> "gdrive", bucket |-> FALSE],
                           [type |-> "s3", bucket |-> TRUE] >>
    /\ request.image_sequence[1].locator = "gdrive"
    /\ failed_task = 0

\* msg has part as a substring
Contains(msg, part) ==
    \E i \in 1..(Len(msg) - Len(part) + 1) : SubSeq(msg, i, i + Len(part) - 1) = part

\* C29: when the compositor exits with a non-zero status the pipeline raises a
\* processing error (a plain Exception, none of the validation, not-found or
\* connection kinds) whose message names the exit status and refers to the
\* diagnostic output captured from standard error, and no upload is attempted.
C29_FfmpegFailureRaises ==
    returncode # 0 =>
        /\ ffmpeg_runs = 1
        /\ error = "Exception"
        /\ TaxonomyCode(error) = 500
        /\ Contains(error_message, "stderr")
        /\ Contains(error_message, "return code " \o ToString(returncode))
        /\ uploads = 0
        /\ ppc \in {"cleanup", "raised"}

\* all three downloads of a two-image request were made, the compositor exited
\* with status 1 and the exception reached the caller with the directory removed
C29_Witness ==
    /\ ppc = "raised"
    /\ downloads = << 1, 2, 3 >>
    /\ ffmpeg_runs = 1
    /\ returncode = 1
    /\ error_message = "FFmpeg failed (return code 1). See logs for full stderr."
    /\ uploads = 0
    /\ ~temp_dir_exists

\* the destination lacks what its kind of upload needs, or its kind is unsupported
InvalidTarget(r) ==
    \/ r.output_target = "gdrive_no_folder_id"
    \/ r.output_target = "s3_no_bucket_name" /\ ~r.default_s3_bucket
    \/ r.output_target = "unknown_type"

\* C30: an upload is attempted only after the compositor exited with status 0
\* and only with destination parameters that passed their check; a gdrive
\* target without folder_id, an s3 target without bucket name and without a
\* default bucket, or an unsupported target kind makes the pipeline raise a
\* validation error after the compositor run, with no upload call made.
C30_UploadAfterChecks ==
    /\ uploads > 0 =>
          /\ uploads = 1
          /\ ffmpeg_runs = 1
          /\ returncode = 0
          /\ ~InvalidTarget(request)
          /\ ppc \in {"cleanup", "returned", "raised"}
    /\ ppc = "upload" => ( ffmpeg_runs = 1 /\ returncode = 0 /\ uploads = 0 )
    /\ ( ffmpeg_runs = 1 /\ returncode = 0 /\ InvalidTarget(request)
         /\ ppc \in {"cleanup", "raised"} ) =>
          /\ error = "ValueError"
          /\ uploads = 0

\* the compositor produced the video of a request whose gdrive target has no
\* folder_id: ValueError reached the caller and no upload was made
C30_Witness ==
    /\ ppc = "raised"
    /\ request.output_target = "gdrive_no_folder_id"
    /\ ffmpeg_runs = 1
    /\ returncode = 0
    /\ error = "ValueError"
    /\ uploads = 0

\* C31: a failure of shutil.rmtree never changes the outcome of the pipeline:
\* the step in which the removal fails keeps the exception of the body and its
\* message, or the absence of one, and the function then returns its result
\* (the body ended with the upload) or lets the body's own exception go on.
C31_CleanupKeepsOutcome ==
    [][ ( ppc = "cleanup" /\ rmtree_failed' ) =>
           /\ error' = error
           /\ error_message' = error_message
           /\ uploads' = uploads
           /\ ppc' = IF error = "none" THEN "returned" ELSE "raised"
           /\ error = "none" => ( uploads = 1 /\ returncode = 0 )
      ]_vars

\* the compositor failed, then the removal of the directory failed as well: the
\* caller received the compositor's exception and the directory is still there
C31_Witness ==
    /\ ppc = "raised"
    /\ rmtree_failed
    /\ temp_dir_exists
    /\ returncode = 1
    /\ error = "Exception"
    /\ error_message = FfmpegFailedMessage(1)

\* the requests C32 is about: no images, an image without duration, no audio,
\* or a locator of an unrecognized source kind
Unassemblable(r) ==
    /\ r.shape = "ok"
    /\ \/ r.image_sequence = << >>
       \/ r.audio_input = "missing"
       \/ r.audio_input = "unknown_kind"
       \/ \E i \in 1..Len(r.image_sequence) :
             \/ ~r.image_sequence[i].has_duration
             \/ r.image_sequence[i].locator = "unknown_kind"

\* what C32 and its amendment share: such a request ends with ValueError and
\* no download, compositor run or upload is ever made for it
RejectedWithoutWork ==
    Unassemblable(request) =>
        /\ downloads = << >>
        /\ ffmpeg_runs = 0
        /\ uploads = 0
        /\ ppc \in {"start", "build", "cleanup", "raised"}
        /\ ppc \in {"cleanup", "raised"} => error = "ValueError"

\* C32 as stated: such a request is rejected with a validation error, without
\* any download, compositor run or upload, and no working directory is left
\* behind once the pipeline has raised.
C32_RejectedNothingLeft ==
    /\ RejectedWithoutWork
    /\ ( Unassemblable(request) /\ ppc = "raised" ) => ~temp_dir_exists

\* C32 amended: such a request is rejected with a validation error, without any
\* download, compositor run or upload; when the rejection comes before the
\* directory is made (no images, no audio) none exists, and when it comes while
\* the task list is built (missing duration, unrecognized kind) the directory is
\* removed unless shutil.rmtree itself failed.
C32_RejectedNothingLeftUnlessRmtreeFails ==
    /\ RejectedWithoutWork
    /\ ( Unassemblable(request) /\ ppc = "raised" ) =>
          /\ temp_dir_exists => rmtree_failed
          /\ RequestIsIncomplete(request) => ( rmtree_calls = 0 /\ ~temp_dir_exists )
          /\ ~RequestIsIncomplete(request) => rmtree_calls = 1

\* a request whose second image has no duration was rejected after the directory
\* was made and removed again
C32_Witness ==
    /\ ppc = "raised"
    /\ Len(request.image_sequence) = 2
    /\ request.image_sequence[1].has_duration
    /\ ~request.image_sequence[2].has_duration
    /\ Resolvable(request.audio_input)
    /\ error = "ValueError"
    /\ rmtree_calls = 1
    /\ ~temp_dir_exists
    /\ downloads = << >>

\* entries admitted to the queue
Admitted == Range(put_order)

\* C33 as stated: the closure of every admitted entry is invoked exactly once:
\* never twice, and once the worker is through with the entry (task_done) it
\* has been invoked.
C33_InvokedExactlyOnce ==
    \A j \in Admitted :
        /\ calls[j] <= 1
        /\ Finished(j) => calls[j] = 1

\* C33 amended: the closure of an admitted entry is invoked at most once, in a
\* step of the worker thread that holds the dequeued entry and never in a step
\* of a request thread; when the worker is through with the entry the closure
\* has been invoked exactly once, unless the worker's `running` report raised
\* and the entry was reported failed without being run. The 202 acknowledgement
\* of a submission that has put its entry can be returned at once, whether or
\* not the closure has run.
C33_InvokedOnceByWorker ==
    [][ /\ \A j \in QueuedJobs :
             /\ calls'[j] # calls[j] =>
                   /\ calls[j] = 0
                   /\ calls'[j] = 1
                   /\ j \in Admitted
                   /\ \E w \in WorkerThreads :
                         wpc[w] = "call" /\ wjob[w] = j /\ wpc'[w] # "call"
                   /\ rpc' = rpc
             /\ ( j \in Range(finish_order') /\ j \notin Range(finish_order) ) =>
                   \/ calls[j] = 1
                   \/ calls[j] = 0 /\ ~Wrote(j, "running") /\ faults > 0
        /\ \A t \in Threads : rpc[t] = "ack" => ENABLED Ack(t)
      ]_vars

\* the submission of an entry was acknowledged with 202 while the entry was
\* still waiting in the queue, its closure not yet invoked
C33_Witness ==
    \E j \in Admitted :
        /\ http[j].code = 202
        /\ j \in Range(task_queue)
        /\ calls[j] = 0

\* C34: a 429 response carries a queue_length that is at least the configured
\* max_queue_length, also when the worker dequeues while the submission is
\* being rejected.
C34_RejectedLengthAtLeastMax ==
    \A j \in JobIds :
        http[j].code = 429 =>
            /\ max_queue_length > 0
            /\ http[j].queue_length >= max_queue_length

\* C34 amended: the queue_length of a 429 response is the number of entries
\* waiting when the response is built, read again after the admission test. The
\* test saw at least max_queue_length > 0 entries, and between the test and the
\* response the queue only gets shorter by the worker dequeuing; so the reported
\* length is at least max_queue_length unless the worker dequeued in between,
\* and then it can be smaller, down to 0.
C34_RejectedLengthIsCurrent ==
    [][ \A t \in Threads :
          /\ ( rpc[t] = "check" /\ rpc'[t] = "reject" ) =>
                ( max_queue_length > 0 /\ qsize >= max_queue_length )
          /\ ( rpc[t] = "reject" /\ Len(task_queue') < qsize ) =>
                ( Len(start_order') = Len(start_order) + 1 /\ rpc'[t] = "reject" )
          /\ ( rpc[t] = "reject" /\ rpc'[t] # "reject" ) =>
                /\ http'[rjob[t]].code = 429
                /\ http'[rjob[t]].queue_length = qsize
                /\ task_queue' = task_queue
      ]_vars

\* a submission was rejected as the worker took the one waiting entry: the 429
\* response reports a queue_length below the configured maximum
C34_Witness ==
    \E j \in JobIds :
        /\ http[j].code = 429
        /\ max_queue_length = 1
        /\ http[j].queue_length = 0

\* C35: when submissions are serialized (one request thread: the length test
\* and the enqueue of a submission are over before the next submission starts)
\* and max_queue_length = K > 0, the queue never holds more than K waiting
\* entries, whatever the worker does in between.
C35_SerializedBound ==
    max_queue_length > 0 => qsize <= max_queue_length

\* the worker took the first entry and a later submission filled the queue
\* again up to the configured maximum
C35_Witness ==
    /\ max_queue_length > 0
    /\ qsize = max_queue_length
    /\ Len(start_order) > 0
    /\ wpc[1] # "get"

Terminal == { "done", "failed" }

\* `done` or `failed` is recorded at most once under a job id and only as the
\* last snapshot, and no job has both
OneTerminalStatus ==
    \A j \in JobIds :
        /\ \A i \in 1..Len(sink[j]) :
              sink[j][i].job_status \in Terminal => i = Len(sink[j])
        /\ ~( Wrote(j, "done") /\ Wrote(j, "failed") )

Flatten(lists) ==
    LET flat[i \in 0..Len(lists)] == IF i = 0 THEN << >> ELSE flat[i - 1] \o lists[i]
    IN  flat[Len(lists)]

IsSet(pair) == pair[2] # ""

\* C37: after the two stream maps the command holds the options in one fixed
\* order: video codec, tune, audio codec, audio bitrate, frame-rate mode (each
\* with its value and only when set), the fixed pixel format, the pass-through
\* flags as given, then `-shortest`, added only when the shortest option is true
\* and the pass-through flags do not hold it already; the output path is the
\* last element.
C37_OptionOrder ==
    ffmpeg_command # << >> =>
        LET c == ffmpeg_command
            M == Len(cmd_request.image_sequence)
            o == cmd_request.ffmpeg_options
            options == << << "-c:v", o.video_codec >>, << "-tune", o.tune >>,
                          << "-c:a", o.audio_codec >>, << "-b:a", o.audio_bitrate >>,
                          << "-fps_mode", o.fps_mode >> >>
            shortest == IF o.shortest = "true" /\ "-shortest" \notin Range(o.other_flags)
                        THEN << "-shortest" >> ELSE << >>
        IN  /\ SubSeq(c, 6 * M + 10, Len(c) - 1) =
                  Flatten(SelectSeq(options, IsSet)) \o << "-pix_fmt", "yuv420p" >>
                     \o o.other_flags \o shortest
            /\ c[Len(c)] = PathJoin(temp_dir, cmd_request.output_filename)
            /\ CountIn(c, 1, Len(c), "-shortest") <= 1
            /\ CountIn(c, 1, Len(c), "-shortest") = 1 <=>
                  ( o.shortest = "true" \/ "-shortest" \in Range(o.other_flags) )

\* a command for a request that sets the video codec and the audio bitrate only,
\* passes two flags through and asks for the shortest stream
C37_Witness ==
    /\ Len(cmd_request.image_sequence) = 1
    /\ SubSeq(ffmpeg_command, 16, Len(ffmpeg_command)) =
          << "-c:v", "libx264", "-b:a", "192k", "-pix_fmt", "yuv420p",
             "-movflags", "+faststart", "-shortest", "/tmp/nca_job/out.mp4" >>

\* C38: a compose request whose JSON body is not an object is answered by the
\* handler's type check: the handler is entered and its outcome is 400 with the
\* message `Invalid JSON payload received.`; the submission wrapper does not
\* fail before.
C38_NotAnObjectIs400 ==
    ( payload = "not_a_dict" /\ Answered(ComposeJob) ) =>
        /\ http[ComposeJob].code # 500
        /\ calls[ComposeJob] > 0 =>
              ( hpc # "returned"
                \/ response_tuple = [ message |-> "Invalid JSON payload received.",
                                      code |-> 400 ] )

====
